---- MODULE Spec2Model ----
(***************************************************************************)
(* Truetime backend: the punch event store (crud.record_attendance_log),   *)
(* the device ingestion reconciler (ingestion.sync_device) and the         *)
(* background poller (ingestion.run_scheduler).                            *)
(*                                                                         *)
(* Two tasks touch the shared relational store: "api", a request handler   *)
(* (POST /attendance/logs and POST /devices/{serial}/sync), and "poller",  *)
(* the scheduler task started by main.lifespan.  Each owns a SQLAlchemy    *)
(* session whose identity map keeps its own copy of the device rows it     *)
(* loaded; the sessions are created with expire_on_commit=False, so a copy *)
(* is not refreshed by later SELECTs.  A step of the model is the code     *)
(* between two awaits that read or write the store.                        *)
(***************************************************************************)
EXTENDS Integers, Sequences, FiniteSets, TLC

\* ---------------------------------------------------------------- bounds
MaxId == 2          \* external ids 0..MaxId
MaxBatch == 2       \* payloads per fetched batch
MaxLogs == 3        \* rows of attendance_logs
MaxClock == 2       \* distinct values of datetime.now()
MaxDate == 2        \* calendar dates 1..MaxDate of shift assignments
MaxAssignments == 2 \* rows of employee_shift_assignments
MaxPunches == 3     \* punches of one pairing walk
MaxDayLogs == 2     \* rows of attendance_logs when the summaries are listed
MaxListed == 3      \* punches in the store of the listing requests
MaxPage == 2        \* the largest limit and the largest offset of a listing request
MaxUsers == 2       \* rows of the users table

\* ------------------------------------------------------------- constants
None == 0 - 1                       \* Python None / SQL NULL of an integer column
Procs == {"api", "poller"}
Devices == {"d1", "d2"}             \* registered biometric_devices (serial numbers)
DeviceOrder == <<"d1", "d2">>       \* list_devices: ORDER BY name
UnknownSerial == "dX"               \* a serial no device row has
Employees == {"e1", "e2"}           \* registered employees (codes)
UnknownCode == "ghost"              \* a code no employee row has
BadDirection == "not-a-string"      \* a direction AttendanceLogCreate rejects
ExtIds == 0 .. MaxId

DeviceErrors == {"DeviceConnectionError", "DeviceClientError"}
NoError == "none"

InitRow == [last_log_id |-> None, last_seen_at |-> None, last_sync_at |-> None]

\* ------------------------------------------------------------- payloads
Payload(ext, code, ts, dir) ==
    [external_id |-> ext, employee_code |-> code, timestamp |-> ts, direction |-> dir]

Good(ext) == Payload(ext, "e1", 1, "in")

\* what a device client may hand to sync_device, by specification
IdPayloads == {Good(i) : i \in ExtIds}
SeqPayloads ==
    IdPayloads \cup
    { Good(None),
      Payload(MaxId, UnknownCode, 1, "in"),
      Payload(MaxId, "", 1, "in"),
      Payload(MaxId, "e1", None, "in") }
ConcPayloads == {Good(i) : i \in 1 .. MaxId}
SchedPayloads ==
    {Good(i) : i \in 1 .. MaxId} \cup {Payload(1, "e1", 1, BadDirection)}

\* request bodies of POST /attendance/logs (already validated by pydantic)
RecordPayloads ==
    IdPayloads \cup
    { Good(None),
      Payload(1, UnknownCode, 1, "in"),
      Payload(1, "e1", 2, "out") }

\* the serials manual syncs are requested for
SyncSerials == {"d1", UnknownSerial}

BatchesOf(S) == UNION {[1 .. n -> S] : n \in 0 .. MaxBatch}

\* ------------------------------------------------- dates, times, shifts
\* a date is a day number, a time of day is seconds since midnight, a datetime
\* is seconds since midnight UTC of day 0
HMS(h, m, sec) == (h * 60 + m) * 60 + sec
StartOfDay(day) == day * HMS(24, 0, 0)
At(day, h, m, sec) == StartOfDay(day) + HMS(h, m, sec)
Minutes(seconds) == seconds \div 60          \* int(delta.total_seconds() // 60)

Dates == 1 .. MaxDate
ShiftIds == {1, 2}                  \* rows of shifts
UnknownShift == 9                   \* an id no shift row has
ShiftRow(st, en, grace) == [start_time |-> st, end_time |-> en, grace_minutes |-> grace]
GeneralShift == ShiftRow(HMS(8, 0, 0), HMS(17, 0, 0), 10)
NightShift == ShiftRow(HMS(22, 0, 0), HMS(6, 0, 0), 0)
ShiftTable == [i \in ShiftIds |-> IF i = 1 THEN GeneralShift ELSE NightShift]

\* the times of day shift 1 is created with
ShiftTimes == {HMS(8, 0, 0), HMS(8, 0, 30), HMS(17, 0, 0)}
GraceMinutes == {0, 10}
ShiftRows == {ShiftRow(st, en, g) : st \in ShiftTimes, en \in ShiftTimes, g \in GraceMinutes}

\* the directions devices and clients send
Directions == {"IN", "out", "break"}

\* punches of day 1
PunchTimes == {At(1, 8, 5, 0), At(1, 8, 10, 0), At(1, 8, 10, 30), At(1, 17, 0, 0)}
DayTimes == {At(1, 8, 10, 0), At(1, 8, 10, 30), At(1, 17, 0, 0)}
Punch(e, dir, at) ==
    [employee |-> e, device |-> "d1", external_id |-> None, direction |-> dir,
     punched_at |-> at]
\* the punches of e1 on day 1, two of e1 on day 2 (one at midnight, the end of
\* day 1) and one of e2 on day 1
DayPunches ==
    {Punch("e1", dir, at) : dir \in Directions, at \in DayTimes}
       \cup {Punch("e1", "IN", At(2, 8, 5, 0)), Punch("e1", "out", At(2, 0, 0, 0)),
             Punch("e2", "IN", At(1, 8, 5, 0))}
WalkPunches == {Punch("e1", dir, at) : dir \in Directions, at \in PunchTimes}
\* the requests POST /employees/{employee_code}/shift is called with
AssignRequests ==
    {<<"e1", sh, from, to>> : sh \in ShiftIds, from \in Dates, to \in Dates \cup {None}}
       \cup {<<"e2", 1, 1, None>>, <<UnknownCode, 1, 1, None>>, <<"e1", UnknownShift, 1, None>>}
SeqsUpTo(S, n) == UNION {[1 .. k -> S] : k \in 0 .. n}

\* ---------------------------------------------- listing queries, users
NotGiven == "-"                     \* a query parameter left out (None)
ListedPunch(e, d, at) ==
    [employee |-> e, device |-> d, external_id |-> None, direction |-> "in",
     punched_at |-> at]
\* punches of two employees on two devices, three of them at the same time
ListedPunches ==
    {ListedPunch("e1", "d1", 1), ListedPunch("e1", "d1", 2),
     ListedPunch("e2", "d1", 2), ListedPunch("e1", "d2", 2)}
Query(e, d, from, to, limit, offset) ==
    [employee_code |-> e, device_serial |-> d, from_time |-> from, to_time |-> to,
     limit |-> limit, offset |-> offset]
\* GET /attendance/logs: limit >= 1 and offset >= 0 are enforced by the route
Queries ==
    {Query(e, d, from, to, limit, offset) :
        e \in {NotGiven, "", "e1"}, d \in {NotGiven, "", "d1"},
        from \in {None, 2}, to \in {None, 2},
        limit \in 1 .. MaxPage, offset \in 0 .. MaxPage}
NoQuery == Query(NotGiven, NotGiven, None, None, 1, 0)

Clients == {"c1", "c2"}             \* the callers of POST /auth/initial-admin
Emails == {"owner@x", "Owner@x", "second@x", "third@x"}

\* ---------------------------------------------------------------- state
VARIABLES
    devices,    \* biometric_devices: serial -> committed row
    logs,       \* attendance_logs: committed rows, in insertion order (id = index)
    clock,      \* the last value datetime.now() returned
    pc,         \* task -> the await it is suspended at
    op,         \* task -> "none" | "record" | "sync"
    cur,        \* task -> the device serial of its operation
    copy,       \* task -> serial -> the row held in the session's identity map
    batch,      \* task -> payloads not yet processed
    fetched,    \* task -> the batch fetch_logs returned (history)
    existing,   \* task -> id of the row the duplicate lookup found, 0 if none
    highest,    \* task -> highest_external_id of sync_device
    ret,        \* task -> ids of the logs the operation returns
    err,        \* task -> the error the operation ended with
    fault,      \* task -> the exception a collaborator raised in the operation (history)
    start,      \* task -> the store as it was when the operation began (history)
    queue,      \* poller: devices of this cycle not yet visited
    listed,     \* poller: devices list_devices returned this cycle (history)
    outcome,    \* poller: serial -> what this cycle did with the device (history)
    abort,      \* poller: what ended the cycle early (history)
    cancelled,  \* "no" | "pending" (task.cancel() called) | "delivered" (CancelledError raised)
    stopped,    \* poller: the await at which CancelledError ended the task
    shifts,     \* shifts: id -> row (start_time, end_time, grace_minutes)
    assignments,\* employee_shift_assignments: committed rows, in insertion order
    ledger,     \* the last shift-assignment request, its input and its result (history)
    summaries,  \* the last GET /attendance/summaries: its day and its response
    walk,       \* the last call of _calculate_work_minutes: its argument and its result
    registered, \* biometric_devices: the serials that have a row
    replayed,   \* TRUE once the device client has handed out the batch of the last sync again
    listing,    \* the last GET /attendance/logs: its query and its response
    users,      \* users: committed rows, in insertion order
    boot        \* client -> its POST /auth/initial-admin request: position, email, response

ingestVars == <<devices, logs, clock, pc, op, cur, copy, batch, fetched, existing,
                highest, ret, err, fault, start, queue, listed, outcome, abort,
                cancelled, stopped>>
attendanceVars == <<shifts, assignments, ledger, summaries, walk>>
otherVars == <<registered, replayed, listing, users, boot>>

vars == <<ingestVars, attendanceVars, otherVars>>

storeVars == <<devices, logs, clock>>
pollVars == <<queue, listed, outcome, abort, cancelled, stopped>>


\* ------------------------------------------------------- pure helpers
Truthy(x) == x /= None /\ x /= 0           \* Python truth value of an Optional[int]
OrZero(x) == IF Truthy(x) THEN x ELSE 0     \* x or 0
Now(c) == IF c < MaxClock THEN c + 1 ELSE MaxClock
Other(p) == IF p = "api" THEN "poller" ELSE "api"

\* (mutant) no duplicate lookup at all
ExistingRowsNever(ls, dev, ext) == {}

\* (mutant) the lookup guarded by `if payload.external_id:`
ExistingRowsTruthy(ls, dev, ext) ==
    IF ~Truthy(ext) THEN {}
    ELSE {i \in 1 .. Len(ls) : ls[i].device = dev /\ ls[i].external_id = ext}

\* (mutant) the lookup made for a payload without external_id as well
ExistingRowsMatchNone(ls, dev, ext) ==
    {i \in 1 .. Len(ls) : ls[i].device = dev /\ ls[i].external_id = ext}

\* rows matching the duplicate lookup of record_attendance_log; no lookup is made
\* for a payload without external_id
ExistingRows(ls, dev, ext) ==
    IF ext = None THEN {}
    ELSE {i \in 1 .. Len(ls) : ls[i].device = dev /\ ls[i].external_id = ext}

\* the device attributes record_attendance_log sets, on the session's copy
TouchDevice(row, ext, now) ==
    [last_seen_at |-> now,
     last_sync_at |-> now,
     last_log_id  |-> IF Truthy(ext) /\ (~Truthy(row.last_log_id) \/ ext > row.last_log_id)
                      THEN ext ELSE row.last_log_id]

\* session.commit(): the UPDATE writes the attributes whose value the session changed
Flush(dbrow, old, new) ==
    [last_seen_at |-> IF new.last_seen_at /= old.last_seen_at
                      THEN new.last_seen_at ELSE dbrow.last_seen_at,
     last_sync_at |-> IF new.last_sync_at /= old.last_sync_at
                      THEN new.last_sync_at ELSE dbrow.last_sync_at,
     last_log_id  |-> IF new.last_log_id /= old.last_log_id
                      THEN new.last_log_id ELSE dbrow.last_log_id]

\* (mutant) only the device is looked up before the log is stored
UnresolvedDeviceOnly(d, pl) == d \notin registered

\* record_attendance_log: "Employee not found" or "Device not found"
Unresolved(d, pl) == pl.employee_code \notin Employees \/ d \notin registered

NewLog(pl, dev) ==
    [employee    |-> pl.employee_code,
     device      |-> dev,
     external_id |-> pl.external_id,
     punched_at  |-> pl.timestamp,
     direction   |-> pl.direction]

\* (mutant) an existing log is overwritten with the payload
StoredLogsUpsert(ls, hit, pl, dev) ==
    IF hit = 0 THEN Append(ls, NewLog(pl, dev)) ELSE [ls EXCEPT ![hit] = NewLog(pl, dev)]

\* record_attendance_log: attendance_logs after the commit, hit the id of the
\* existing log or 0
StoredLogs(ls, hit, pl, dev) ==
    IF hit = 0 THEN Append(ls, NewLog(pl, dev)) ELSE ls

\* (mutant) no handler around record_attendance_log
RejectionSkippedNever(exc) == FALSE

\* sync_device: except crud.CRUDException: continue
RejectionSkipped(exc) == exc = "CRUDException"

\* (mutant) the row stored last is returned
ReturnedLogLatest(hit, ls) == Len(ls)

\* record_attendance_log: the id of the log it returns (`return existing`, or
\* the new row after the refresh), ls the table after the commit
ReturnedLog(hit, ls) == IF hit = 0 THEN Len(ls) ELSE hit

\* sync_device: the high-water-mark pre-filter
AlreadySeen(row, pl) ==
    /\ pl.external_id /= None
    /\ row.last_log_id /= None
    /\ pl.external_id <= row.last_log_id

\* (mutant) only the employee code is looked at
MalformedCodeOnly(pl) == pl.employee_code = ""

\* sync_device: payloads without employee code or datetime timestamp
Malformed(pl) == pl.employee_code = "" \/ pl.timestamp = None

\* sync_device: AttendanceLogCreate(...) raises a pydantic ValidationError
Invalid(pl) == pl.direction = BadDirection

InitialHighest(row) == OrZero(row.last_log_id)

NextHighest(h, ext) == IF ext /= None /\ ext > h THEN ext ELSE h

\* sync_device: the device attributes set after the batch
FinishRow(row, h, now) ==
    [last_seen_at |-> now,
     last_sync_at |-> now,
     last_log_id  |-> IF Truthy(h) /\ OrZero(row.last_log_id) < h
                      THEN h ELSE row.last_log_id]

\* (mutant) every exception of fetch_logs re-raised as DeviceClientError
FetchErrorWrapsAll(exc) == "DeviceClientError"

\* sync_device: what an exception of fetch_logs becomes
FetchError(exc) == IF exc \in DeviceErrors THEN exc ELSE "DeviceClientError"

\* run_scheduler: except DeviceClientError around the client construction
ClientCatches(exc) == exc \in DeviceErrors
\* (mutant) no catch-all around sync_device
SyncCatchesDeviceErrorsOnly(exc) == exc \in DeviceErrors
\* (mutant) a catch-all that also catches CancelledError (except BaseException)
SyncCatchesBaseException(exc) == TRUE
\* run_scheduler: except DeviceClientError / except Exception around sync_device
SyncCatches(exc) == exc \in DeviceErrors \cup {"Exception"}
\* (mutant) no safety net around the cycle
CycleCatchesNothing(exc) == FALSE
\* run_scheduler: except CancelledError: raise / except Exception around the cycle
CycleCatches(exc) == exc /= "CancelledError"

\* (mutant) an exception caught for one device ends the cycle
PollerAfterEndsCycle(where, exc) ==
    IF where \in {"sync", "client"} /\ CycleCatches(exc) THEN "sleep"
    ELSE IF where /= "sleep" /\ CycleCatches(exc) THEN "sleep"
    ELSE "terminated"

\* (mutant) an exception caught for one device starts the next cycle at once
PollerAfterRelists(where, exc) ==
    IF where = "sync" /\ SyncCatches(exc) THEN "list"
    ELSE IF where = "client" /\ ClientCatches(exc) THEN "next"
    ELSE IF where /= "sleep" /\ CycleCatches(exc) THEN "sleep"
    ELSE "terminated"

\* run_scheduler: where the task continues after `exc` is raised at `where`
\* ("client", "sync": inside the per-device try blocks; "cycle": inside the
\* outer try only; "sleep": the asyncio.sleep after it)
PollerAfter(where, exc) ==
    IF where = "sync" /\ SyncCatches(exc) THEN "next"
    ELSE IF where = "client" /\ ClientCatches(exc) THEN "next"
    ELSE IF where /= "sleep" /\ CycleCatches(exc) THEN "sleep"
    ELSE "terminated"

\* the try block the poller's await lies in
Where(at) ==
    IF at \in {"fetch", "loop", "lookup", "commit"} THEN "sync"
    ELSE IF at = "sleep" THEN "sleep"
    ELSE "cycle"

\* the store has room for n more rows beside those the other task may still insert
Room(p, n) == Len(logs) + n + Len(batch[Other(p)]) <= MaxLogs

NoCopy == [d \in Devices |-> InitRow]
Snapshot == [devs |-> devices, logs |-> logs]
NoSnapshot == [devs |-> NoCopy, logs |-> <<>>]
NoOutcome == [d \in Devices |-> "none"]

Max(S) == CHOOSE x \in S : \A y \in S : y <= x
RowsOf(ls, d) == {i \in 1 .. Len(ls) : ls[i].device = d}
Count(ls, r) == Cardinality({i \in 1 .. Len(ls) : ls[i] = r})
SameRows(l1, l2) ==
    \A r \in {l1[i] : i \in 1 .. Len(l1)} \cup {l2[i] : i \in 1 .. Len(l2)} :
        Count(l1, r) = Count(l2, r)

\* sync_device run alone from st = [row, logs] on batch b: no other session
\* commits in between, so the session's copy of the row is the stored row
RECURSIVE SyncFold(_, _, _, _)
SyncFold(st, d, b, h) ==
    IF b = <<>>
    THEN [st EXCEPT !.row = FinishRow(st.row, h, 0)]
    ELSE LET pl == Head(b)
         IN IF AlreadySeen(st.row, pl) \/ Malformed(pl) \/ pl.employee_code \notin Employees
            THEN SyncFold(st, d, Tail(b), h)
            ELSE SyncFold(
                   [row  |-> TouchDevice(st.row, pl.external_id, 0),
                    logs |-> IF ExistingRows(st.logs, d, pl.external_id) = {}
                             THEN Append(st.logs, NewLog(pl, d)) ELSE st.logs],
                   d, Tail(b), NextHighest(h, pl.external_id))

SyncAlone(st, d, b) == SyncFold(st, d, b, InitialHighest(st.row))

\* ------------------------------------------- shift assignment ledger
Assignment(e, sh, from, to) ==
    [employee |-> e, shift |-> sh, effective_from |-> from, effective_to |-> to]

\* (mutant) the truncation test with a strict comparison of the start dates
CoversStartStrict(a, from) ==
    /\ a.effective_from < from
    /\ (a.effective_to = None \/ a.effective_to >= from)

\* assign_shift_to_employee: the test that truncates an existing assignment
CoversStart(a, from) ==
    /\ a.effective_from <= from
    /\ (a.effective_to = None \/ a.effective_to >= from)

\* assign_shift_to_employee: the rows overlapping_stmt selects
Overlapping(rows, e, from) ==
    {i \in 1 .. Len(rows) :
        /\ rows[i].employee = e
        /\ (rows[i].effective_to = None \/ rows[i].effective_to >= from)}

\* (mutant) the new assignment added without truncating any other
AssignRowsAppendOnly(rows, e, sh, from, to) ==
    Append(rows, Assignment(e, sh, from, to))

\* assign_shift_to_employee: the table after the commit
AssignRows(rows, e, sh, from, to) ==
    LET sel == Overlapping(rows, e, from)
        cut == [i \in 1 .. Len(rows) |->
                  IF i \in sel /\ CoversStart(rows[i], from)
                  THEN [rows[i] EXCEPT !.effective_to = from - 1]
                  ELSE rows[i]]
    IN Append(cut, Assignment(e, sh, from, to))

\* get_shift_assignment_for_date: the WHERE clause
CoversDate(a, e, on_date) ==
    /\ a.employee = e
    /\ a.effective_from <= on_date
    /\ (a.effective_to = None \/ a.effective_to >= on_date)

\* (mutant) ORDER BY effective_from ASC
ResolvedEarliest(rows, e, on_date) ==
    LET hits == {i \in 1 .. Len(rows) : CoversDate(rows[i], e, on_date)}
    IN IF hits = {} THEN {0}
       ELSE {i \in hits : \A j \in hits : rows[j].effective_from >= rows[i].effective_from}

\* get_shift_assignment_for_date: the rows ORDER BY effective_from DESC LIMIT 1
\* may return (the database picks among equal effective_from); 0 when none
Resolved(rows, e, on_date) ==
    LET hits == {i \in 1 .. Len(rows) : CoversDate(rows[i], e, on_date)}
    IN IF hits = {} THEN {0}
       ELSE {i \in hits : \A j \in hits : rows[j].effective_from <= rows[i].effective_from}

\* ------------------------------------------------- daily summary engine
\* str.lower() on the directions of the model
Lower(d) == CASE d = "IN" -> "in" [] d = "OUT" -> "out" [] OTHER -> d

\* str.startswith(prefix) on the lowered directions of the model
StartsWith(str, prefix) == <<str, prefix>> \in {<<"in", "in">>, <<"out", "out">>}

\* (mutant) the day more than a day long only when end < start
ExpectedMinutesStrict(shift) ==
    LET end == IF shift.end_time < shift.start_time
               THEN shift.end_time + HMS(24, 0, 0) ELSE shift.end_time
    IN Minutes(end - shift.start_time)

\* _expected_minutes_for_shift
ExpectedMinutesForShift(shift) ==
    LET end == IF shift.end_time <= shift.start_time
               THEN shift.end_time + HMS(24, 0, 0) ELSE shift.end_time
    IN Minutes(end - shift.start_time)

\* sorted(logs, key=punched_at): a stable sort, by insertion
InsertByPunch(sorted, x) ==
    LET k == Cardinality({i \in 1 .. Len(sorted) : sorted[i].punched_at <= x.punched_at})
    IN SubSeq(sorted, 1, k) \o <<x>> \o SubSeq(sorted, k + 1, Len(sorted))

RECURSIVE SortedByPunch(_)
SortedByPunch(ls) ==
    IF ls = <<>> THEN <<>>
    ELSE InsertByPunch(SortedByPunch(SubSeq(ls, 1, Len(ls) - 1)), ls[Len(ls)])

NoWalk == [total_minutes |-> 0, open_in |-> None, first_in |-> None, last_out |-> None]

\* (mutant) an out leaves the session open
WalkStepKeepsSessionOpen(acc, log) ==
    LET timestamp == log.punched_at
        direction == Lower(log.direction)
    IN IF StartsWith(direction, "in")
       THEN [acc EXCEPT !.first_in = IF acc.first_in = None THEN timestamp ELSE @,
                        !.open_in = timestamp]
       ELSE IF StartsWith(direction, "out")
       THEN [acc EXCEPT !.last_out = timestamp,
                        !.total_minutes =
                            IF acc.open_in /= None
                            THEN @ + Minutes(timestamp - acc.open_in) ELSE @]
       ELSE [acc EXCEPT !.last_out = timestamp]

\* (mutant) a punch of another direction closes the open session
WalkStepOtherCloses(acc, log) ==
    LET timestamp == log.punched_at
        direction == Lower(log.direction)
    IN IF StartsWith(direction, "in")
       THEN [acc EXCEPT !.first_in = IF acc.first_in = None THEN timestamp ELSE @,
                        !.open_in = timestamp]
       ELSE IF StartsWith(direction, "out")
       THEN [acc EXCEPT !.last_out = timestamp,
                        !.total_minutes =
                            IF acc.open_in /= None
                            THEN @ + Minutes(timestamp - acc.open_in) ELSE @,
                        !.open_in = None]
       ELSE [acc EXCEPT !.last_out = timestamp, !.open_in = None]

\* _calculate_work_minutes: the body of the for loop
WalkStep(acc, log) ==
    LET timestamp == log.punched_at
        direction == Lower(log.direction)
    IN IF StartsWith(direction, "in")
       THEN [acc EXCEPT !.first_in = IF acc.first_in = None THEN timestamp ELSE @,
                        !.open_in = timestamp]
       ELSE IF StartsWith(direction, "out")
       THEN [acc EXCEPT !.last_out = timestamp,
                        !.total_minutes =
                            IF acc.open_in /= None
                            THEN @ + Minutes(timestamp - acc.open_in) ELSE @,
                        !.open_in = None]
       ELSE [acc EXCEPT !.last_out = timestamp]

RECURSIVE WalkAll(_, _)
WalkAll(ls, acc) ==
    IF ls = <<>> THEN acc ELSE WalkAll(Tail(ls), WalkStep(acc, Head(ls)))

\* (mutant) the walk over the list as given, without sorted()
CalculateWorkMinutesUnsorted(ls) ==
    LET acc == WalkAll(ls, NoWalk)
    IN [acc EXCEPT !.last_out = IF acc.last_out = None /\ ls /= <<>>
                                THEN ls[Len(ls)].punched_at ELSE @]

\* _calculate_work_minutes
CalculateWorkMinutes(ls) ==
    LET acc == WalkAll(SortedByPunch(ls), NoWalk)
    IN [acc EXCEPT !.last_out = IF acc.last_out = None /\ ls /= <<>>
                                THEN ls[Len(ls)].punched_at ELSE @]

Summary(st, w, sh, expected, late) ==
    [status |-> st, first_in |-> w.first_in, last_out |-> w.last_out,
     total_minutes |-> w.total_minutes, shift |-> sh,
     expected_minutes |-> expected, late_minutes |-> late]

\* (mutant) lateness counted from the first minute after shift start + grace
DaySummaryLateAtGrace(ls, sh, row, target_date) ==
    LET w == CalculateWorkMinutes(ls)
        base == IF ls = <<>> THEN "absent"
                ELSE IF w.open_in /= None \/ w.first_in = None \/ w.last_out = None
                THEN "incomplete" ELSE "present"
        shift_start == StartOfDay(target_date) + row.start_time
        grace == row.grace_minutes * 60
    IN IF ls /= <<>> /\ sh /= None /\ w.first_in /= None
       THEN IF w.first_in >= shift_start + grace
            THEN Summary("late", w, sh, ExpectedMinutesForShift(row),
                         Minutes(w.first_in - shift_start))
            ELSE Summary(base, w, sh, ExpectedMinutesForShift(row), 0)
       ELSE Summary(base, w, sh, None, None)

\* (mutant) late_minutes counted from the end of the grace period
DaySummaryLateFromGrace(ls, sh, row, target_date) ==
    LET w == CalculateWorkMinutes(ls)
        base == IF ls = <<>> THEN "absent"
                ELSE IF w.open_in /= None \/ w.first_in = None \/ w.last_out = None
                THEN "incomplete" ELSE "present"
        shift_start == StartOfDay(target_date) + row.start_time
        grace == row.grace_minutes * 60
    IN IF ls /= <<>> /\ sh /= None /\ w.first_in /= None
       THEN IF w.first_in > shift_start + grace
            THEN Summary("late", w, sh, ExpectedMinutesForShift(row),
                         Minutes(w.first_in - shift_start - grace))
            ELSE Summary(base, w, sh, ExpectedMinutesForShift(row), 0)
       ELSE Summary(base, w, sh, None, None)

\* (mutant) the shift block entered without a resolved shift
DaySummaryShiftless(ls, sh, row, target_date) ==
    LET w == CalculateWorkMinutes(ls)
        base == IF ls = <<>> THEN "absent"
                ELSE IF w.open_in /= None \/ w.first_in = None \/ w.last_out = None
                THEN "incomplete" ELSE "present"
        shift_start == StartOfDay(target_date) + row.start_time
        grace == row.grace_minutes * 60
    IN IF ls /= <<>> /\ w.first_in /= None
       THEN IF w.first_in > shift_start + grace
            THEN Summary("late", w, sh, ExpectedMinutesForShift(row),
                         Minutes(w.first_in - shift_start))
            ELSE Summary(base, w, sh, ExpectedMinutesForShift(row), 0)
       ELSE Summary(base, w, sh, None, None)

\* list_daily_summaries: the body of the loop over the employees, for the day's
\* logs ls and the resolved shift (id sh, row), None when no assignment covers
DaySummary(ls, sh, row, target_date) ==
    LET w == CalculateWorkMinutes(ls)
        base == IF ls = <<>> THEN "absent"
                ELSE IF w.open_in /= None \/ w.first_in = None \/ w.last_out = None
                THEN "incomplete" ELSE "present"
        shift_start == StartOfDay(target_date) + row.start_time
        grace == row.grace_minutes * 60
    IN IF ls /= <<>> /\ sh /= None /\ w.first_in /= None
       THEN IF w.first_in > shift_start + grace
            THEN Summary("late", w, sh, ExpectedMinutesForShift(row),
                         Minutes(w.first_in - shift_start))
            ELSE Summary(base, w, sh, ExpectedMinutesForShift(row), 0)
       ELSE Summary(base, w, sh, None, None)

\* (mutant) logs_stmt without the end_of_day bound
DayRowsOpenEnded(ls, e, target_date) ==
    {i \in 1 .. Len(ls) :
        /\ ls[i].employee = e
        /\ ls[i].punched_at >= StartOfDay(target_date)}

\* (mutant) logs_stmt with punched_at <= end_of_day
DayRowsThroughMidnight(ls, e, target_date) ==
    {i \in 1 .. Len(ls) :
        /\ ls[i].employee = e
        /\ ls[i].punched_at >= StartOfDay(target_date)
        /\ ls[i].punched_at <= StartOfDay(target_date) + HMS(24, 0, 0)}

\* list_daily_summaries: logs_stmt, the ids of the employee's rows of the day
DayRows(ls, e, target_date) ==
    {i \in 1 .. Len(ls) :
        /\ ls[i].employee = e
        /\ ls[i].punched_at >= StartOfDay(target_date)
        /\ ls[i].punched_at < StartOfDay(target_date) + HMS(24, 0, 0)}

\* list_daily_summaries: the lists logs_stmt may return, ORDER BY punched_at ASC
\* (the database picks among equal punched_at)
DayLogs(ls, e, target_date) ==
    LET ids == DayRows(ls, e, target_date)
        n == Cardinality(ids)
    IN {[k \in 1 .. n |-> ls[f[k]]] :
          f \in {g \in [1 .. n -> ids] :
                   /\ \A a, b \in 1 .. n : a /= b => g[a] /= g[b]
                   /\ \A a, b \in 1 .. n : a < b => ls[g[a]].punched_at <= ls[g[b]].punched_at}}

\* ----------------------------------------------------- listing punches
\* list_attendance_logs: the WHERE clauses; `if employee_code:` and
\* `if device_serial:` add a clause for a non-empty string only
Matches(row, q) ==
    /\ (q.employee_code /= NotGiven /\ q.employee_code /= "")
          => row.employee = q.employee_code
    /\ (q.device_serial /= NotGiven /\ q.device_serial /= "")
          => row.device = q.device_serial
    /\ q.from_time /= None => row.punched_at >= q.from_time
    /\ q.to_time /= None => row.punched_at <= q.to_time

\* ORDER BY punched_at DESC over the rows S of ls: the orders the database
\* may return, rows of equal punched_at in any order
Descending(ls, S) ==
    LET n == Cardinality(S)
    IN {g \in [1 .. n -> S] :
          /\ \A a, b \in 1 .. n : a /= b => g[a] /= g[b]
          /\ \A a, b \in 1 .. n : a < b => ls[g[a]].punched_at >= ls[g[b]].punched_at}

\* (mutant) the offset applied after the limit
PageLimitFirst(g, offset, limit) ==
    LET cut == IF limit < Len(g) THEN SubSeq(g, 1, limit) ELSE g
    IN IF offset >= Len(cut) THEN <<>> ELSE SubSeq(cut, offset + 1, Len(cut))

\* .offset(offset).limit(limit)
Page(g, offset, limit) ==
    IF offset >= Len(g) THEN <<>>
    ELSE SubSeq(g, offset + 1, IF offset + limit < Len(g) THEN offset + limit ELSE Len(g))

\* ------------------------------------------------------------- users
\* payload.email.lower()
LowerEmail(email) == IF email = "Owner@x" THEN "owner@x" ELSE email

User(email, role, by) == [email |-> email, role |-> role, by |-> by]

\* users_exist: SELECT count(users.id) > 0
UsersExist(us) == Len(us) > 0

\* the unique index on users.email
EmailTaken(us, email) == \E i \in 1 .. Len(us) : us[i].email = email

\* ------------------------------------------------------------------ Init
NoLedger ==
    [op |-> "none", employee |-> "", shift |-> None, effective_from |-> None,
     effective_to |-> None, on_date |-> None, before |-> <<>>, result |-> 0,
     err |-> NoError]
NoSummaries == [day |-> None, of |-> <<>>]
NoCall == [input |-> <<>>, called |-> FALSE, result |-> NoWalk]
NoListing == [called |-> FALSE, query |-> NoQuery, total |-> 0, items |-> <<>>]
NoBoot == [c \in Clients |-> [at |-> "idle", email |-> "", status |-> 0]]

\* no request in progress, the poller about to start its first cycle
TasksIdle ==
    /\ pc = [p \in Procs |-> IF p = "api" THEN "idle" ELSE "list"]
    /\ op = [p \in Procs |-> "none"]
    /\ cur = [p \in Procs |-> "d1"]
    /\ copy = [p \in Procs |-> NoCopy]
    /\ batch = [p \in Procs |-> <<>>]
    /\ fetched = [p \in Procs |-> <<>>]
    /\ existing = [p \in Procs |-> 0]
    /\ highest = [p \in Procs |-> 0]
    /\ ret = [p \in Procs |-> <<>>]
    /\ err = [p \in Procs |-> NoError]
    /\ fault = [p \in Procs |-> NoError]
    /\ start = [p \in Procs |-> NoSnapshot]
    /\ queue = <<>>
    /\ listed = {}
    /\ outcome = NoOutcome
    /\ abort = "none"
    /\ cancelled = "no"
    /\ stopped = "none"

\* every device registered, no user stored, no other request made
OthersIdle ==
    /\ registered = Devices
    /\ replayed = FALSE
    /\ listing = NoListing
    /\ users = <<>>
    /\ boot = NoBoot

Init ==
    /\ devices = [d \in Devices |-> InitRow]
    /\ logs = <<>>
    /\ clock = 0
    /\ TasksIdle
    /\ shifts = ShiftTable
    /\ assignments = <<>>
    /\ ledger = NoLedger
    /\ summaries = NoSummaries
    /\ walk = NoCall
    /\ OthersIdle

\* ------------------------------------------------- the request handler
\* POST /attendance/logs up to the duplicate lookup: the employee and the device
\* are resolved, the device row enters the session
StartRecord(d, pl) ==
    /\ pc["api"] \in {"idle", "done"}
    /\ Room("api", 1)
    /\ op' = [op EXCEPT !["api"] = "record"]
    /\ fetched' = [fetched EXCEPT !["api"] = <<pl>>]
    /\ existing' = [existing EXCEPT !["api"] = 0]
    /\ highest' = [highest EXCEPT !["api"] = 0]
    /\ ret' = [ret EXCEPT !["api"] = <<>>]
    /\ fault' = [fault EXCEPT !["api"] = NoError]
    /\ IF Unresolved(d, pl)
       THEN /\ pc' = [pc EXCEPT !["api"] = "done"]
            /\ err' = [err EXCEPT !["api"] = "NotFound"]
            /\ batch' = [batch EXCEPT !["api"] = <<>>]
            /\ copy' = [copy EXCEPT !["api"] = NoCopy]
            /\ cur' = [cur EXCEPT !["api"] = d]
            /\ start' = [start EXCEPT !["api"] = Snapshot]
       ELSE /\ pc' = [pc EXCEPT !["api"] = "lookup"]
            /\ err' = [err EXCEPT !["api"] = NoError]
            /\ batch' = [batch EXCEPT !["api"] = <<pl>>]
            /\ copy' = [copy EXCEPT !["api"] = [NoCopy EXCEPT ![d] = devices[d]]]
            /\ cur' = [cur EXCEPT !["api"] = d]
            /\ start' = [start EXCEPT !["api"] = Snapshot]
    /\ UNCHANGED <<storeVars, pollVars>>
    /\ UNCHANGED <<attendanceVars, otherVars>>

\* POST /devices/{serial}/sync up to fetch_logs: the device row enters the session
StartSync(d) ==
    /\ pc["api"] \in {"idle", "done"}
    /\ op' = [op EXCEPT !["api"] = "sync"]
    /\ batch' = [batch EXCEPT !["api"] = <<>>]
    /\ fetched' = [fetched EXCEPT !["api"] = <<>>]
    /\ existing' = [existing EXCEPT !["api"] = 0]
    /\ highest' = [highest EXCEPT !["api"] = 0]
    /\ ret' = [ret EXCEPT !["api"] = <<>>]
    /\ fault' = [fault EXCEPT !["api"] = NoError]
    /\ IF d \notin registered
       THEN /\ pc' = [pc EXCEPT !["api"] = "done"]
            /\ err' = [err EXCEPT !["api"] = "NotFound"]
            /\ copy' = [copy EXCEPT !["api"] = NoCopy]
            /\ cur' = [cur EXCEPT !["api"] = "d1"]
            /\ start' = [start EXCEPT !["api"] = Snapshot]
       ELSE /\ pc' = [pc EXCEPT !["api"] = "fetch"]
            /\ err' = [err EXCEPT !["api"] = NoError]
            /\ copy' = [copy EXCEPT !["api"] = [NoCopy EXCEPT ![d] = devices[d]]]
            /\ cur' = [cur EXCEPT !["api"] = d]
            /\ start' = [start EXCEPT !["api"] = Snapshot]
    /\ UNCHANGED <<storeVars, pollVars>>
    /\ UNCHANGED <<attendanceVars, otherVars>>


\* ------------------------------------------------------- sync_device
\* an exception leaves sync_device in task p: the request ends with it, the
\* poller goes on where its handlers say
Raise(p, orig, exc) ==
    /\ err' = [err EXCEPT ![p] = exc]
    /\ fault' = [fault EXCEPT ![p] = orig]
    /\ batch' = [batch EXCEPT ![p] = <<>>]
    /\ IF p = "api"
       THEN /\ pc' = [pc EXCEPT ![p] = "done"]
            /\ UNCHANGED <<outcome, abort>>
       ELSE /\ pc' = [pc EXCEPT ![p] = PollerAfter("sync", exc)]
            /\ outcome' = [outcome EXCEPT ![cur[p]] = "failed"]
            /\ abort' = IF SyncCatches(exc) THEN abort ELSE "sync"
    /\ UNCHANGED <<storeVars, op, cur, copy, fetched, existing, highest, ret, start,
                   queue, listed, cancelled, stopped>>
    /\ UNCHANGED <<attendanceVars, otherVars>>

\* await client.fetch_logs() returns a batch drawn from S
FetchLogs(p, S) ==
    /\ pc[p] = "fetch"
    /\ cancelled /= "pending"
    /\ \E b \in BatchesOf(S) :
          /\ Room(p, Len(b))
          /\ batch' = [batch EXCEPT ![p] = b]
          /\ fetched' = [fetched EXCEPT ![p] = b]
    /\ highest' = [highest EXCEPT ![p] = InitialHighest(copy[p][cur[p]])]
    /\ ret' = [ret EXCEPT ![p] = <<>>]
    /\ pc' = [pc EXCEPT ![p] = "loop"]
    /\ UNCHANGED <<storeVars, op, cur, copy, existing, err, fault, start, pollVars>>
    /\ UNCHANGED <<attendanceVars, otherVars>>

\* await client.fetch_logs() raises
FetchFails(p) ==
    /\ pc[p] = "fetch"
    /\ cancelled /= "pending"
    /\ \E exc \in DeviceErrors \cup {"Exception"} : Raise(p, exc, FetchError(exc))

\* the head of the loop body, up to the duplicate lookup of record_attendance_log
FilterPayload(p) ==
    /\ pc[p] = "loop"
    /\ op[p] = "sync"
    /\ cancelled /= "pending"
    /\ batch[p] /= <<>>
    /\ LET pl == Head(batch[p])
           row == copy[p][cur[p]]
       IN IF AlreadySeen(row, pl) \/ Malformed(pl)
          THEN /\ batch' = [batch EXCEPT ![p] = Tail(batch[p])]
               /\ UNCHANGED <<storeVars, pc, op, cur, copy, fetched, existing, highest,
                              ret, err, fault, start, pollVars>>
          ELSE IF Invalid(pl)
          THEN Raise(p, "Exception", "Exception")
          ELSE IF Unresolved(cur[p], pl)
          THEN IF RejectionSkipped("CRUDException")
               THEN /\ batch' = [batch EXCEPT ![p] = Tail(batch[p])]
                    /\ UNCHANGED <<storeVars, pc, op, cur, copy, fetched, existing, highest,
                                   ret, err, fault, start, pollVars>>
               ELSE Raise(p, "CRUDException", "CRUDException")
          ELSE /\ pc' = [pc EXCEPT ![p] = "lookup"]
               /\ UNCHANGED <<storeVars, op, cur, copy, batch, fetched, existing, highest,
                              ret, err, fault, start, pollVars>>
    /\ UNCHANGED <<attendanceVars, otherVars>>

\* --------------------------------------------- record_attendance_log
\* the SELECT ... WHERE device_id, external_id ... LIMIT 1
LookupExisting(p) ==
    /\ pc[p] = "lookup"
    /\ cancelled /= "pending"
    /\ LET hits == ExistingRows(logs, cur[p], Head(batch[p]).external_id)
       IN IF hits = {}
          THEN existing' = [existing EXCEPT ![p] = 0]
          ELSE \E i \in hits : existing' = [existing EXCEPT ![p] = i]
    /\ pc' = [pc EXCEPT ![p] = "commit"]
    /\ UNCHANGED <<storeVars, op, cur, copy, batch, fetched, highest, ret, err, fault, start,
                   pollVars>>
    /\ UNCHANGED <<attendanceVars, otherVars>>

\* the device is touched, the log added unless one exists, and session.commit()
CommitPayload(p) ==
    /\ pc[p] = "commit"
    /\ cancelled /= "pending"
    /\ LET pl == Head(batch[p])
           d == cur[p]
           old == copy[p][d]
           now == Now(clock)
           new == TouchDevice(old, pl.external_id, now)
           added == StoredLogs(logs, existing[p], pl, d)
           id == ReturnedLog(existing[p], added)
       IN /\ clock' = now
          /\ logs' = added
          /\ devices' = [devices EXCEPT ![d] = Flush(devices[d], old, new)]
          /\ copy' = [copy EXCEPT ![p][d] = new]
          /\ ret' = [ret EXCEPT ![p] = Append(ret[p], id)]
          /\ highest' = [highest EXCEPT ![p] = NextHighest(highest[p], pl.external_id)]
    /\ batch' = [batch EXCEPT ![p] = Tail(batch[p])]
    /\ existing' = [existing EXCEPT ![p] = 0]
    /\ pc' = [pc EXCEPT ![p] = IF op[p] = "record" THEN "done" ELSE "loop"]
    /\ UNCHANGED <<op, cur, fetched, err, fault, start, pollVars>>
    /\ UNCHANGED <<attendanceVars, otherVars>>

\* sync_device after the loop: timestamps, high-water mark, session.commit()
FinishSync(p) ==
    /\ pc[p] = "loop"
    /\ op[p] = "sync"
    /\ cancelled /= "pending"
    /\ batch[p] = <<>>
    /\ LET d == cur[p]
           old == copy[p][d]
           now == Now(clock)
           new == FinishRow(old, highest[p], now)
       IN /\ clock' = now
          /\ devices' = [devices EXCEPT ![d] = Flush(devices[d], old, new)]
          /\ copy' = [copy EXCEPT ![p][d] = new]
          /\ outcome' = IF p = "poller" THEN [outcome EXCEPT ![d] = "synced"] ELSE outcome
    /\ pc' = [pc EXCEPT ![p] = IF p = "api" THEN "done" ELSE "next"]
    /\ UNCHANGED <<logs, op, cur, batch, fetched, existing, highest, ret, err, fault, start,
                   queue, listed, abort, cancelled, stopped>>
    /\ UNCHANGED <<attendanceVars, otherVars>>

\* POST /devices/{serial}/sync once more, the device client handing out the
\* batch of the last sync again: the row is loaded into a new session and the
\* loop starts over the same payloads
SyncAgain ==
    /\ pc["api"] = "done"
    /\ op["api"] = "sync"
    /\ err["api"] = NoError
    /\ ~replayed
    /\ replayed' = TRUE
    /\ LET d == cur["api"]
       IN /\ copy' = [copy EXCEPT !["api"] = [NoCopy EXCEPT ![d] = devices[d]]]
          /\ highest' = [highest EXCEPT !["api"] = InitialHighest(devices[d])]
    /\ batch' = [batch EXCEPT !["api"] = fetched["api"]]
    /\ existing' = [existing EXCEPT !["api"] = 0]
    /\ ret' = [ret EXCEPT !["api"] = <<>>]
    /\ start' = [start EXCEPT !["api"] = Snapshot]
    /\ pc' = [pc EXCEPT !["api"] = "loop"]
    /\ UNCHANGED <<storeVars, op, cur, fetched, err, fault, pollVars>>
    /\ UNCHANGED <<attendanceVars, registered, listing, users, boot>>

\* ------------------------------------------------------ run_scheduler
\* async with session_factory(): devices = await crud.list_devices(session)
ListDevices ==
    /\ pc["poller"] = "list"
    /\ cancelled /= "pending"
    /\ copy' = [copy EXCEPT !["poller"] = devices]
    /\ queue' = SelectSeq(DeviceOrder, LAMBDA d : d \in registered)
    /\ listed' = registered
    /\ outcome' = NoOutcome
    /\ abort' = "none"
    /\ pc' = [pc EXCEPT !["poller"] = "next"]
    /\ UNCHANGED <<storeVars, op, cur, batch, fetched, existing, highest, ret, err, fault, start,
                   cancelled, stopped>>
    /\ UNCHANGED <<attendanceVars, otherVars>>

\* list_devices (or opening the session) raises
ListFails ==
    /\ pc["poller"] = "list"
    /\ cancelled /= "pending"
    /\ listed' = {}
    /\ outcome' = NoOutcome
    /\ abort' = "list"
    /\ err' = [err EXCEPT !["poller"] = "Exception"]
    /\ fault' = [fault EXCEPT !["poller"] = "Exception"]
    /\ pc' = [pc EXCEPT !["poller"] = PollerAfter("cycle", "Exception")]
    /\ UNCHANGED <<storeVars, op, cur, copy, batch, fetched, existing, highest, ret, start,
                   queue, cancelled, stopped>>
    /\ UNCHANGED <<attendanceVars, otherVars>>

\* the for loop takes the next device, builds its client and calls sync_device
BuildClient ==
    /\ pc["poller"] = "next"
    /\ cancelled /= "pending"
    /\ queue /= <<>>
    /\ cur' = [cur EXCEPT !["poller"] = Head(queue)]
    /\ queue' = Tail(queue)
    /\ op' = [op EXCEPT !["poller"] = "sync"]
    /\ start' = [start EXCEPT !["poller"] = Snapshot]
    /\ err' = [err EXCEPT !["poller"] = NoError]
    /\ fault' = [fault EXCEPT !["poller"] = NoError]
    /\ fetched' = [fetched EXCEPT !["poller"] = <<>>]
    /\ ret' = [ret EXCEPT !["poller"] = <<>>]
    /\ pc' = [pc EXCEPT !["poller"] = "fetch"]
    /\ UNCHANGED <<storeVars, copy, batch, existing, highest, listed, outcome, abort,
                   cancelled, stopped>>
    /\ UNCHANGED <<attendanceVars, otherVars>>

\* the client construction raises
BuildClientFails ==
    /\ pc["poller"] = "next"
    /\ cancelled /= "pending"
    /\ queue /= <<>>
    /\ \E exc \in DeviceErrors \cup {"Exception"} :
          /\ err' = [err EXCEPT !["poller"] = exc]
          /\ fault' = [fault EXCEPT !["poller"] = exc]
          /\ pc' = [pc EXCEPT !["poller"] = PollerAfter("client", exc)]
          /\ outcome' = [outcome EXCEPT ![Head(queue)] = "no_client"]
          /\ abort' = IF ClientCatches(exc) THEN abort ELSE "client"
    /\ cur' = [cur EXCEPT !["poller"] = Head(queue)]
    /\ queue' = Tail(queue)
    /\ start' = [start EXCEPT !["poller"] = Snapshot]
    /\ UNCHANGED <<storeVars, op, copy, batch, fetched, existing, highest, ret,
                   listed, cancelled, stopped>>
    /\ UNCHANGED <<attendanceVars, otherVars>>

\* the for loop is exhausted: the session closes
CycleEnds ==
    /\ pc["poller"] = "next"
    /\ cancelled /= "pending"
    /\ queue = <<>>
    /\ pc' = [pc EXCEPT !["poller"] = "sleep"]
    /\ UNCHANGED <<storeVars, op, cur, copy, batch, fetched, existing, highest, ret, err, fault,
                   start, pollVars>>
    /\ UNCHANGED <<attendanceVars, otherVars>>

\* await asyncio.sleep(poll_interval) returns: the next cycle
WakeUp ==
    /\ pc["poller"] = "sleep"
    /\ cancelled /= "pending"
    /\ pc' = [pc EXCEPT !["poller"] = "list"]
    /\ op' = [op EXCEPT !["poller"] = "none"]
    /\ cur' = [cur EXCEPT !["poller"] = "d1"]
    /\ copy' = [copy EXCEPT !["poller"] = NoCopy]
    /\ batch' = [batch EXCEPT !["poller"] = <<>>]
    /\ fetched' = [fetched EXCEPT !["poller"] = <<>>]
    /\ existing' = [existing EXCEPT !["poller"] = 0]
    /\ highest' = [highest EXCEPT !["poller"] = 0]
    /\ ret' = [ret EXCEPT !["poller"] = <<>>]
    /\ err' = [err EXCEPT !["poller"] = NoError]
    /\ fault' = [fault EXCEPT !["poller"] = NoError]
    /\ start' = [start EXCEPT !["poller"] = NoSnapshot]
    /\ queue' = <<>>
    /\ UNCHANGED <<storeVars, listed, outcome, abort, cancelled, stopped>>
    /\ UNCHANGED <<attendanceVars, otherVars>>

\* main.lifespan on shutdown: task.cancel()
Cancel ==
    /\ cancelled = "no"
    /\ cancelled' = "pending"
    /\ UNCHANGED <<storeVars, pc, op, cur, copy, batch, fetched, existing, highest, ret,
                   err, fault, start, queue, listed, outcome, abort, stopped>>
    /\ UNCHANGED <<attendanceVars, otherVars>>

\* CancelledError is raised at the await the poller is suspended at
DeliverCancel ==
    /\ cancelled = "pending"
    /\ cancelled' = "delivered"
    /\ stopped' = pc["poller"]
    /\ pc' = [pc EXCEPT !["poller"] = PollerAfter(Where(pc["poller"]), "CancelledError")]
    /\ UNCHANGED <<storeVars, op, cur, copy, batch, fetched, existing, highest, ret, err, fault,
                   start, queue, listed, outcome, abort>>
    /\ UNCHANGED <<attendanceVars, otherVars>>

\* ------------------------------------------- shift assignment ledger
\* (mutant) the shift id is not looked up
AssignFailureEmployeeOnly(e, sh, table) ==
    IF e \notin Employees THEN "Employee not found" ELSE NoError

\* assign_shift_to_employee: the CRUDException raised before any row is touched
AssignFailure(e, sh, table) ==
    IF e \notin Employees THEN "Employee not found"
    ELSE IF sh \notin DOMAIN table THEN "Shift not found"
    ELSE NoError

\* POST /employees/{employee_code}/shift
AssignShift(e, sh, from, to) ==
    /\ Len(assignments) < MaxAssignments
    /\ LET failure == AssignFailure(e, sh, shifts)
           rows == IF failure = NoError
                   THEN AssignRows(assignments, e, sh, from, to) ELSE assignments
       IN /\ assignments' = rows
          /\ ledger' = [op |-> "assign", employee |-> e, shift |-> sh,
                        effective_from |-> from, effective_to |-> to,
                        on_date |-> None, before |-> assignments,
                        result |-> IF failure = NoError THEN Len(rows) ELSE 0,
                        err |-> failure]
    /\ UNCHANGED <<ingestVars, otherVars, shifts, summaries, walk>>

\* get_shift_assignment_for_date(session, employee.id, on_date)
ResolveForDate(e, on_date) ==
    /\ \E r \in Resolved(assignments, e, on_date) :
          ledger' = [op |-> "resolve", employee |-> e, shift |-> None,
                     effective_from |-> None, effective_to |-> None,
                     on_date |-> on_date, before |-> assignments,
                     result |-> r, err |-> NoError]
    /\ UNCHANGED <<ingestVars, otherVars, shifts, assignments, summaries, walk>>

\* ------------------------------------------------- daily summary engine
\* the summaries list_daily_summaries may compute for employee e; the shift row
\* is read only when an assignment covers the day
SummariesOf(e, target_date) ==
    {DaySummary(ls,
                IF r = 0 THEN None ELSE assignments[r].shift,
                IF r = 0 THEN GeneralShift ELSE shifts[assignments[r].shift],
                target_date) :
        ls \in DayLogs(logs, e, target_date),
        r \in Resolved(assignments, e, target_date)}

\* GET /attendance/summaries?day=target_date
ListDailySummaries(target_date) ==
    /\ \E f \in [Employees -> UNION {SummariesOf(e, target_date) : e \in Employees}] :
          /\ \A e \in Employees : f[e] \in SummariesOf(e, target_date)
          /\ summaries' = [day |-> target_date, of |-> f]
    /\ UNCHANGED <<ingestVars, otherVars, shifts, assignments, ledger, walk>>

\* total_minutes, first_in, last_out, open_in = _calculate_work_minutes(logs)
CalculateWork ==
    /\ ~walk.called
    /\ walk' = [walk EXCEPT !.called = TRUE, !.result = CalculateWorkMinutes(walk.input)]
    /\ UNCHANGED <<ingestVars, otherVars, shifts, assignments, ledger, summaries>>

\* ----------------------------------------------------- listing punches
\* GET /attendance/logs: total and the page of log ids
ListAttendanceLogs(q) ==
    /\ ~listing.called
    /\ LET hits == {i \in 1 .. Len(logs) : Matches(logs[i], q)}
       IN \E g \in Descending(logs, hits) :
             listing' = [called |-> TRUE, query |-> q, total |-> Cardinality(hits),
                         items |-> Page(g, q.offset, q.limit)]
    /\ UNCHANGED <<ingestVars, attendanceVars, registered, replayed, users, boot>>

\* ------------------------------------------------------------- users
\* POST /auth/initial-admin up to the await of users_exist
CheckUsersExist(c, email) ==
    /\ boot[c].at \in {"idle", "done"}
    /\ boot' = [boot EXCEPT ![c] =
                  IF UsersExist(users)
                  THEN [at |-> "done", email |-> email, status |-> 409]
                  ELSE [at |-> "create", email |-> email, status |-> 0]]
    /\ UNCHANGED <<ingestVars, attendanceVars, registered, replayed, listing, users>>

\* create_user(session, bootstrap_payload): the INSERT and its commit
CreateInitialAdmin(c) ==
    /\ boot[c].at = "create"
    /\ Len(users) < MaxUsers
    /\ LET email == LowerEmail(boot[c].email)
       IN IF EmailTaken(users, email)
          THEN /\ boot' = [boot EXCEPT ![c].at = "done", ![c].status = 409]
               /\ UNCHANGED users
          ELSE /\ boot' = [boot EXCEPT ![c].at = "done", ![c].status = 201]
               /\ users' = Append(users, User(email, "admin", "bootstrap"))
    /\ UNCHANGED <<ingestVars, attendanceVars, registered, replayed, listing>>

\* POST /users by an administrator or manager already stored
CreateUser(email, role) ==
    /\ \E i \in 1 .. Len(users) : users[i].role \in {"admin", "manager"}
    /\ Len(users) < MaxUsers
    /\ ~EmailTaken(users, LowerEmail(email))
    /\ users' = Append(users, User(LowerEmail(email), role, "users"))
    /\ UNCHANGED <<ingestVars, attendanceVars, registered, replayed, listing, boot>>

\* ----------------------------------------------------------- devices
\* POST /devices: a new row in biometric_devices
RegisterDevice(d) ==
    /\ d \notin registered
    /\ registered' = registered \cup {d}
    /\ UNCHANGED <<ingestVars, attendanceVars, replayed, listing, users, boot>>

\* ------------------------------------------------------ specifications
\* requests one after another, no poller
NextSeq ==
    \/ \E d \in Devices \cup {UnknownSerial}, pl \in RecordPayloads : StartRecord(d, pl)
    \/ \E d \in SyncSerials : StartSync(d)
    \/ FetchLogs("api", SeqPayloads)
    \/ FetchFails("api")
    \/ FilterPayload("api")
    \/ LookupExisting("api")
    \/ CommitPayload("api")
    \/ FinishSync("api")

SpecSeq == Init /\ [][NextSeq]_vars


\* manual syncs of d1 one after another, the last one on the batch of the one
\* before it
NextReplay ==
    \/ (~replayed /\ StartSync("d1"))
    \/ FetchLogs("api", SeqPayloads)
    \/ FilterPayload("api")
    \/ LookupExisting("api")
    \/ CommitPayload("api")
    \/ FinishSync("api")
    \/ SyncAgain

SpecReplay == Init /\ [][NextReplay]_vars


\* one listing request over a store of punches
InitList ==
    /\ devices = [d \in Devices |-> InitRow]
    /\ logs \in SeqsUpTo(ListedPunches, MaxListed)
    /\ clock = 0
    /\ TasksIdle
    /\ shifts = ShiftTable
    /\ assignments = <<>>
    /\ ledger = NoLedger
    /\ summaries = NoSummaries
    /\ walk = NoCall
    /\ OthersIdle

NextList == \E q \in Queries : ListAttendanceLogs(q)

SpecList == InitList /\ [][NextList]_vars


\* two clients posting to /auth/initial-admin while users are managed
NextBootstrap ==
    \/ \E c \in Clients, email \in Emails : CheckUsersExist(c, email)
    \/ \E c \in Clients : CreateInitialAdmin(c)
    \/ \E email \in Emails, role \in {"manager", "viewer"} : CreateUser(email, role)

SpecBootstrap == Init /\ [][NextBootstrap]_vars


\* the poller alone, with failing collaborators and shutdown
PollerNext ==
    \/ ListDevices
    \/ ListFails
    \/ BuildClient
    \/ BuildClientFails
    \/ CycleEnds
    \/ WakeUp
    \/ FetchLogs("poller", SchedPayloads)
    \/ FetchFails("poller")
    \/ FilterPayload("poller")
    \/ LookupExisting("poller")
    \/ CommitPayload("poller")
    \/ FinishSync("poller")
    \/ DeliverCancel

NextSched == PollerNext \/ Cancel

SpecSched == Init /\ [][NextSched]_vars

\* the event loop resumes a task whose await has completed
SpecSchedFair == SpecSched /\ WF_vars(PollerNext)

\* the poller, never cancelled, while a second device is registered: syncs
\* fail, client constructions fail with the errors of ESSLDeviceClient, and
\* list_devices answers
InitPoll ==
    /\ devices = [d \in Devices |-> InitRow]
    /\ logs = <<>>
    /\ clock = 0
    /\ TasksIdle
    /\ shifts = ShiftTable
    /\ assignments = <<>>
    /\ ledger = NoLedger
    /\ summaries = NoSummaries
    /\ walk = NoCall
    /\ registered = {"d1"}
    /\ replayed = FALSE
    /\ listing = NoListing
    /\ users = <<>>
    /\ boot = NoBoot

PollerSteps ==
    \/ ListDevices
    \/ BuildClient
    \/ (BuildClientFails /\ abort' = "none")
    \/ CycleEnds
    \/ WakeUp
    \/ FetchLogs("poller", SchedPayloads)
    \/ FetchFails("poller")
    \/ FilterPayload("poller")
    \/ LookupExisting("poller")
    \/ CommitPayload("poller")
    \/ FinishSync("poller")

NextPoll == PollerSteps \/ \E d \in Devices : RegisterDevice(d)

SpecPoll == InitPoll /\ [][NextPoll]_vars

\* the event loop resumes a task whose await has completed
SpecPollFair == SpecPoll /\ WF_vars(PollerSteps)


\* a manual sync or a recorded punch on d1 while the poller runs
NextConc ==
    \/ \E pl \in IdPayloads : StartRecord("d1", pl)
    \/ StartSync("d1")
    \/ \E p \in Procs : FetchLogs(p, ConcPayloads)
    \/ \E p \in Procs : FilterPayload(p)
    \/ \E p \in Procs : LookupExisting(p)
    \/ \E p \in Procs : CommitPayload(p)
    \/ \E p \in Procs : FinishSync(p)
    \/ ListDevices
    \/ BuildClient
    \/ CycleEnds
    \/ WakeUp

SpecConc == Init /\ [][NextConc]_vars


\* shift assignments and lookups, one request after another
NextLedger ==
    \/ \E r \in AssignRequests : AssignShift(r[1], r[2], r[3], r[4])
    \/ \E e \in Employees, d \in Dates : ResolveForDate(e, d)

SpecLedger == Init /\ [][NextLedger]_vars

\* the summaries of day 1 over a store of punches, a shift and an assignment
InitDay ==
    /\ devices = [d \in Devices |-> InitRow]
    /\ logs \in SeqsUpTo(DayPunches, MaxDayLogs)
    /\ clock = 0
    /\ TasksIdle
    /\ shifts \in {[ShiftTable EXCEPT ![1] = row] : row \in ShiftRows}
    /\ assignments \in {<<>>, <<Assignment("e1", 1, 1, None), Assignment("e2", 2, 1, None)>>}
    /\ ledger = NoLedger
    /\ summaries = NoSummaries
    /\ walk = NoCall
    /\ OthersIdle

NextDay == ListDailySummaries(1)

SpecDay == InitDay /\ [][NextDay]_vars

\* the pairing walk over lists of punches in any order
InitWalk ==
    /\ devices = [d \in Devices |-> InitRow]
    /\ logs = <<>>
    /\ clock = 0
    /\ TasksIdle
    /\ shifts = ShiftTable
    /\ assignments = <<>>
    /\ ledger = NoLedger
    /\ summaries = NoSummaries
    /\ walk \in {[NoCall EXCEPT !.input = ls] : ls \in SeqsUpTo(WalkPunches, MaxPunches)}
    /\ OthersIdle

NextWalk == CalculateWork

SpecWalk == InitWalk /\ [][NextWalk]_vars


\* ---------------------------------------------------------------- claims
\* C1: after recordPunch calls run one after another the store holds at most
\* one PunchEvent per (device, non-null externalId); a recordPunch whose
\* (device, externalId) is already stored adds no row and returns the stored one.
C1_OnePunchPerExternalId ==
    /\ \A i, j \in 1 .. Len(logs) :
          (i /= j /\ logs[i].device = logs[j].device /\ logs[i].external_id /= None)
             => logs[i].external_id /= logs[j].external_id
    /\ (pc["api"] = "done" /\ op["api"] = "record" /\ err["api"] = NoError)
          => LET hits == ExistingRows(start["api"].logs, cur["api"],
                                      fetched["api"][1].external_id)
             IN hits /= {} => /\ logs = start["api"].logs
                              /\ \A k \in hits : ret["api"] = <<k>>

C1_Witness ==
    /\ pc["api"] = "done" /\ op["api"] = "record" /\ err["api"] = NoError
    /\ ExistingRows(start["api"].logs, cur["api"], fetched["api"][1].external_id) /= {}
    /\ Len(logs) >= 2

\* C2: last_log_id of a device never decreases, whatever recordPunch and
\* syncDevice steps of the request handler and the poller interleave.
C2_HighWaterNeverDecreases ==
    [][\A d \in Devices : devices'[d].last_log_id >= devices[d].last_log_id]_vars

MaxAccepted(d) ==
    LET ids == {logs[i].external_id : i \in RowsOf(logs, d)} \ {None}
    IN IF ids = {} THEN None ELSE Max(ids)

\* C3: after a completed recordPunch or syncDevice, last_log_id of every device is
\* the maximum externalId accepted for it (0 included), and null only when no
\* event with an externalId was accepted.
C3_HighWaterIsMaxAccepted ==
    pc["api"] = "done" => \A d \in Devices : devices[d].last_log_id = MaxAccepted(d)

\* C4: a completed syncDevice has persisted no payload whose externalId is <= the
\* last_log_id the device had when the sync began, and has persisted every other
\* well-formed payload of a known employee.
C4_SyncPersistsExactlyTheNew ==
    (pc["api"] = "done" /\ op["api"] = "sync" /\ err["api"] = NoError)
       => LET d == cur["api"]
              before == start["api"].logs
              mark == start["api"].devs[d].last_log_id
              Stale(pl) == pl.external_id /= None /\ mark /= None /\ pl.external_id <= mark
          IN \A n \in 1 .. Len(fetched["api"]) :
                LET pl == fetched["api"][n]
                IN /\ Stale(pl) =>
                        \A k \in Len(before) + 1 .. Len(logs) :
                            logs[k].external_id /= pl.external_id
                   /\ (~Stale(pl) /\ ~Malformed(pl) /\ pl.employee_code \in Employees) =>
                        \E k \in RowsOf(logs, d) :
                            /\ logs[k].external_id = pl.external_id
                            /\ pl.external_id = None => k > Len(before)

\* C5: when a manual sync and a poller sync of d1 that began on the same store
\* and fetched overlapping batches have both completed, the rows of d1 and its
\* last_log_id are those of running the two syncs one after the other, in one
\* of the two orders.
C5_ConcurrentSyncsConverge ==
    (/\ pc["api"] = "done" /\ op["api"] = "sync" /\ cur["api"] = "d1"
     /\ err["api"] = NoError
     /\ pc["poller"] = "next" /\ cur["poller"] = "d1" /\ outcome["d1"] = "synced"
     /\ start["api"] = start["poller"]
     /\ \E i \in DOMAIN fetched["api"] : \E j \in DOMAIN fetched["poller"] :
            fetched["api"][i] = fetched["poller"][j])
       => LET st0 == [row |-> start["api"].devs["d1"], logs |-> start["api"].logs]
              a == fetched["api"]
              b == fetched["poller"]
              ab == SyncAlone(SyncAlone(st0, "d1", a), "d1", b)
              ba == SyncAlone(SyncAlone(st0, "d1", b), "d1", a)
              Same(st) == /\ devices["d1"].last_log_id = st.row.last_log_id
                          /\ SameRows(logs, st.logs)
          IN Same(ab) \/ Same(ba)

\* C6: a sync of the poller interrupted by cancellation after the fetch and
\* before its final commit has left no punch and no change of the device row
\* in the store.
C6_InterruptedSyncLeavesNothing ==
    (pc["poller"] = "terminated" /\ stopped \in {"loop", "lookup", "commit"})
       => /\ logs = start["poller"].logs
          /\ devices[cur["poller"]] = start["poller"].devs[cur["poller"]]

\* C7: when fetch_logs fails with DeviceConnectionError or DeviceClientError,
\* syncDevice ends with that error, returns and stores nothing and leaves the
\* device row (last_log_id, last_sync_at, last_seen_at) as it was.
C7_FetchFailureChangesNothing ==
    (pc["api"] = "done" /\ op["api"] = "sync" /\ fault["api"] \in DeviceErrors)
       => /\ err["api"] = fault["api"]
          /\ ret["api"] = <<>>
          /\ logs = start["api"].logs
          /\ devices = start["api"].devs

C7_Witness ==
    /\ pc["api"] = "done" /\ op["api"] = "sync"
    /\ fault["api"] = "DeviceConnectionError"
    /\ devices[cur["api"]].last_log_id = MaxId
    /\ devices[cur["api"]].last_sync_at /= None


C9_LoopSurvivesErrors ==
    /\ [](pc["poller"] = "terminated" => cancelled /= "no")
    /\ [](fault["poller"] /= NoError => <>(pc["poller"] = "list" \/ cancelled /= "no"))

C9_Witness ==
    /\ pc["poller"] = "list"
    /\ abort = "client"
    /\ outcome["d1"] = "failed"
    /\ cancelled = "no"

\* C10: once cancelled the poller terminates, and from the call of cancel() on
\* it starts no device sync, wherever the cancellation reaches it.
C10_CancellationStopsThePoller ==
    /\ (cancelled /= "no") ~> (pc["poller"] = "terminated")
    /\ [][cancelled /= "no" => ~(pc["poller"] /= "fetch" /\ pc'["poller"] = "fetch")]_vars

C10_Witness ==
    /\ pc["poller"] = "terminated"
    /\ stopped = "commit"
    /\ queue /= <<>>

\* two assignments share a date: some date lies in both effective ranges
Overlap(a, b) ==
    LET from == IF a.effective_from >= b.effective_from
                THEN a.effective_from ELSE b.effective_from
        to == IF a.effective_to = None THEN b.effective_to
              ELSE IF b.effective_to = None THEN a.effective_to
              ELSE IF a.effective_to <= b.effective_to
              THEN a.effective_to ELSE b.effective_to
    IN to = None \/ from <= to

\* C11: no two assignments of the same employee have overlapping effective
\* ranges, after any sequence of assign requests.
C11_AssignmentsNeverOverlap ==
    \A i, j \in 1 .. Len(assignments) :
        (i /= j /\ assignments[i].employee = assignments[j].employee)
           => ~Overlap(assignments[i], assignments[j])

\* C12: a successful assign sets effective_to to effective_from - 1 on exactly
\* the employee's assignments that cover the new effective_from, appends the new
\* assignment and leaves every other row as it was.
C12_AssignTruncatesExactlyTheCovering ==
    (ledger.op = "assign" /\ ledger.err = NoError)
       => LET b == ledger.before
              from == ledger.effective_from
              covers(a) == /\ a.employee = ledger.employee
                           /\ a.effective_from <= from
                           /\ (a.effective_to = None \/ a.effective_to >= from)
          IN /\ Len(assignments) = Len(b) + 1
             /\ assignments[Len(assignments)] =
                   Assignment(ledger.employee, ledger.shift, from, ledger.effective_to)
             /\ \A i \in 1 .. Len(b) :
                   IF covers(b[i])
                   THEN assignments[i] = [b[i] EXCEPT !.effective_to = from - 1]
                   ELSE assignments[i] = b[i]

\* an open-ended assignment from day 1 truncated to day 1 by a new one from day 2
C12_Witness ==
    /\ ledger.op = "assign" /\ ledger.err = NoError
    /\ ledger.effective_from = 2 /\ ledger.effective_to = None
    /\ Len(ledger.before) = 1
    /\ ledger.before[1] = Assignment("e1", 1, 1, None)
    /\ assignments[1] = Assignment("e1", 1, 1, 1)
    /\ assignments[2] = Assignment("e1", 2, 2, None)

\* C13: the lookup for a date returns an assignment of the employee that
\* covers the date, one with the latest effective_from when several cover it,
\* and none when none covers it.
C13_ResolveReturnsLatestCovering ==
    ledger.op = "resolve"
       => LET hits == {i \in 1 .. Len(assignments) :
                         /\ assignments[i].employee = ledger.employee
                         /\ assignments[i].effective_from <= ledger.on_date
                         /\ (assignments[i].effective_to = None
                               \/ assignments[i].effective_to >= ledger.on_date)}
          IN IF hits = {} THEN ledger.result = 0
             ELSE /\ ledger.result \in hits
                  /\ \A j \in hits : assignments[j].effective_from
                                        <= assignments[ledger.result].effective_from

\* two assignments cover the date and the later-starting one is returned
C13_Witness ==
    /\ ledger.op = "resolve" /\ ledger.on_date = 2
    /\ Len(assignments) = 2
    /\ assignments[1].effective_from = 2 /\ assignments[2].effective_from = 1
    /\ assignments[1].effective_to = None /\ assignments[2].effective_to = None
    /\ assignments[1].employee = "e1" /\ assignments[2].employee = "e1"
    /\ ledger.employee = "e1"
    /\ ledger.result = 1

\* the punches of employee e on the listed day, as the store holds them
PunchesOn(e, day) ==
    {i \in 1 .. Len(logs) :
        /\ logs[i].employee = e
        /\ logs[i].punched_at >= day * 86400
        /\ logs[i].punched_at < (day + 1) * 86400}
InPunch(row) == row.direction \in {"in", "IN"}
OutPunch(row) == row.direction \in {"out", "OUT"}
\* some in punch of the set is later than every out punch of the set
EndsOpen(S) ==
    \E i \in S : /\ InPunch(logs[i])
                 /\ \A j \in S : OutPunch(logs[j]) => logs[j].punched_at < logs[i].punched_at
\* every in punch of the set is followed by a later out punch
EndsClosed(S) ==
    \A i \in S : InPunch(logs[i])
                    => \E j \in S : OutPunch(logs[j]) /\ logs[j].punched_at > logs[i].punched_at
Earliest(S) == CHOOSE t \in S : \A u \in S : t <= u

\* C14: an employee with a punch on the day whose walk ends with a session
\* open, or who has no in punch, has status incomplete, with or without a
\* shift and however late the first in is.
C14_OpenSessionIsIncomplete ==
    summaries.day /= None
       => \A e \in Employees :
             LET S == PunchesOn(e, summaries.day)
             IN (S /= {} /\ (EndsOpen(S) \/ ~\E i \in S : InPunch(logs[i])))
                   => summaries.of[e].status = "incomplete"

\* C15: with punches, no session left open, a shift resolved and a first in,
\* the status is late exactly when the first in is later than shift start +
\* grace, late_minutes is then the whole minutes from shift start to first in,
\* and otherwise the status is present with late_minutes 0.
C15_LateOnlyAfterGrace ==
    summaries.day /= None
       => \A e \in Employees :
             LET S == PunchesOn(e, summaries.day)
                 sm == summaries.of[e]
                 ins == {logs[i].punched_at : i \in {k \in S : InPunch(logs[k])}}
                 shift_start ==
                    summaries.day * 86400 + shifts[sm.shift].start_time
                 edge == shift_start + shifts[sm.shift].grace_minutes * 60
             IN (S /= {} /\ EndsClosed(S) /\ sm.shift /= None /\ ins /= {})
                   => IF Earliest(ins) > edge
                      THEN /\ sm.status = "late"
                           /\ sm.late_minutes = (Earliest(ins) - shift_start) \div 60
                      ELSE /\ sm.status = "present"
                           /\ sm.late_minutes = 0

\* a first in exactly at shift shift_start + grace is present, not late
C15_Witness ==
    /\ summaries.day = 1
    /\ shifts[1] = GeneralShift
    /\ logs = <<Punch("e1", "IN", At(1, 8, 10, 0)), Punch("e1", "out", At(1, 17, 0, 0))>>
    /\ summaries.of["e1"].shift = 1
    /\ summaries.of["e1"].status = "present"
    /\ summaries.of["e1"].late_minutes = 0
    /\ summaries.of["e1"].first_in = At(1, 8, 10, 0)

\* C17: an employee with no punch on the listed day is absent, with first_in
\* and last_out unset and total_minutes 0, with or without a shift.
C17_NoPunchIsAbsent ==
    summaries.day /= None
       => \A e \in Employees :
             PunchesOn(e, summaries.day) = {}
                => /\ summaries.of[e].status = "absent"
                   /\ summaries.of[e].first_in = None
                   /\ summaries.of[e].last_out = None
                   /\ summaries.of[e].total_minutes = 0

\* e1 has a shift and a punch on day 2 only, e2 has a punch on the day
C17_Witness ==
    /\ summaries.day = 1
    /\ logs = <<Punch("e1", "IN", At(2, 8, 5, 0)), Punch("e2", "IN", At(1, 8, 5, 0))>>
    /\ summaries.of["e1"].shift = 1
    /\ summaries.of["e1"].status = "absent"
    /\ summaries.of["e2"].status /= "absent"

\* the minutes from start to end of a shift, the end on the next day when it
\* is not after the start
ShiftLength(shift) ==
    IF shift.end_time > shift.start_time
    THEN (shift.end_time - shift.start_time) \div 60
    ELSE (shift.end_time - shift.start_time + 86400) \div 60

WalkedBefore(ls, i, j) ==
    \/ ls[i].punched_at < ls[j].punched_at
    \/ (ls[i].punched_at = ls[j].punched_at /\ i < j)
InsOf(ls) == {i \in 1 .. Len(ls) : InPunch(ls[i])}
OutsOf(ls) == {i \in 1 .. Len(ls) : OutPunch(ls[i])}
\* the pairs <<in, out>> of the list where the out closes the session the in
\* opened: no other in or out is walked between them
Sessions(ls) ==
    {pr \in InsOf(ls) \X OutsOf(ls) :
        /\ WalkedBefore(ls, pr[1], pr[2])
        /\ \A k \in (InsOf(ls) \cup OutsOf(ls)) \ {pr[1], pr[2]} :
              ~(WalkedBefore(ls, pr[1], k) /\ WalkedBefore(ls, k, pr[2]))}
RECURSIVE SessionMinutes(_, _)
SessionMinutes(ls, prs) ==
    IF prs = {} THEN 0
    ELSE LET pr == CHOOSE x \in prs : TRUE
         IN (ls[pr[2]].punched_at - ls[pr[1]].punched_at) \div 60
               + SessionMinutes(ls, prs \ {pr})
\* the in left open at the end: an in after which no in or out is walked
OpenAtEnd(ls) ==
    {i \in InsOf(ls) : \A k \in (InsOf(ls) \cup OutsOf(ls)) \ {i} : WalkedBefore(ls, k, i)}
Latest(S) == CHOOSE t \in S : \A u \in S : u <= t
TimesOf(ls, S) == {ls[i].punched_at : i \in S}
TestPunches == <<Punch("e1", "IN", At(1, 8, 5, 0)), Punch("e1", "out", At(1, 17, 0, 0))>>

\* what C16 and its amendment both say of total_minutes, the open cursor and
\* first_in
WalkPairsSessions(ls, r) ==
    /\ r.total_minutes = SessionMinutes(ls, Sessions(ls))
    /\ r.open_in = IF OpenAtEnd(ls) = {} THEN None ELSE Latest(TimesOf(ls, OpenAtEnd(ls)))
    /\ r.first_in = IF InsOf(ls) = {} THEN None ELSE Earliest(TimesOf(ls, InsOf(ls)))
    /\ ls = TestPunches
          => /\ r.total_minutes = 535
             /\ r.first_in = At(1, 8, 5, 0)
             /\ r.last_out = At(1, 17, 0, 0)

\* C16 as stated: the walk pairs each out with the in that opened the session
\* (a later in replaces an open one, an out without an open in adds nothing),
\* in ascending timestamp order for any input order, adds the whole minutes of
\* each pair, first_in is the earliest in and last_out the latest out.
C16_WalkPairsInsWithOuts ==
    walk.called
       => /\ WalkPairsSessions(walk.input, walk.result)
          /\ OutsOf(walk.input) /= {}
                => walk.result.last_out = Latest(TimesOf(walk.input, OutsOf(walk.input)))

\* C16 amended: as stated, except that last_out is the latest punch that is
\* not an in (an out or any other direction) and, when every punch is an in,
\* the last punch of the list as given.
C16_WalkLastOutIsLatestNonIn ==
    walk.called
       => LET ls == walk.input
              others == (1 .. Len(ls)) \ InsOf(ls)
          IN /\ WalkPairsSessions(ls, walk.result)
             /\ walk.result.last_out =
                   IF others /= {} THEN Latest(TimesOf(ls, others))
                   ELSE IF ls /= <<>> THEN ls[Len(ls)].punched_at
                   ELSE None

\* an out given first, a second in replacing the first, 529 whole minutes
C16_Witness ==
    /\ walk.called
    /\ walk.input = <<Punch("e1", "out", At(1, 17, 0, 0)), Punch("e1", "IN", At(1, 8, 10, 30)),
                      Punch("e1", "IN", At(1, 8, 5, 0))>>
    /\ walk.result.total_minutes = 529
    /\ walk.result.first_in = At(1, 8, 5, 0)
    /\ walk.result.last_out = At(1, 17, 0, 0)
    /\ walk.result.open_in = None

RetriedLogs ==
    {i \in 1 .. Len(start["api"].logs) :
        /\ fetched["api"][1].external_id /= None
        /\ start["api"].logs[i].device = cur["api"]
        /\ start["api"].logs[i].external_id = fetched["api"][1].external_id}

C21_ReplayIsIdempotent ==
    (/\ replayed
     /\ pc["api"] = "done"
     /\ \A i \in DOMAIN fetched["api"] : fetched["api"][i].external_id /= None)
        => /\ logs = start["api"].logs
           /\ devices[cur["api"]].last_log_id = start["api"].devs[cur["api"]].last_log_id

C21_Witness ==
    /\ replayed
    /\ pc["api"] = "done"
    /\ Len(fetched["api"]) = MaxBatch
    /\ \A i \in DOMAIN fetched["api"] : fetched["api"][i].external_id /= None
    /\ \E i \in DOMAIN fetched["api"] : fetched["api"][i] = Good(0)
    /\ Len(ret["api"]) >= 1
    /\ Len(logs) >= 2


\* the response of the last listing request is the total of the log ids `hits`
\* and their page: as many ids as the limit allows after the offset, all of
\* them different hits, the j-th of them at position offset + j of the hits
\* in descending order of punched_at
ListedPageOf(hits) ==
    LET q == listing.query
        items == listing.items
        n == Cardinality(hits)
    IN /\ listing.total = n
       /\ Len(items) = IF n - q.offset > q.limit THEN q.limit
                       ELSE IF n > q.offset THEN n - q.offset ELSE 0
       /\ \A j \in 1 .. Len(items) : items[j] \in hits
       /\ \A j, k \in 1 .. Len(items) : j /= k => items[j] /= items[k]
       /\ \A j \in 1 .. Len(items) :
             LET at == logs[items[j]].punched_at
             IN /\ Cardinality({h \in hits : logs[h].punched_at > at}) < q.offset + j
                /\ q.offset + j <= Cardinality({h \in hits : logs[h].punched_at >= at})

\* the stored punches within the time bounds of the last listing request
InListedPeriod(i) ==
    /\ listing.query.from_time /= None => logs[i].punched_at >= listing.query.from_time
    /\ listing.query.to_time /= None => logs[i].punched_at <= listing.query.to_time

\* C22 as stated: listPunches returns as total the number of stored punches
\* that match every filter present in the request (employee code, device
\* serial, punched_at >= from, punched_at <= to), whatever limit and offset
\* are, and as page the items at positions offset .. offset + limit - 1 of
\* those punches in descending order of punched_at.
C22_ListReturnsFilteredPage ==
    listing.called =>
        ListedPageOf({i \in 1 .. Len(logs) :
            /\ listing.query.employee_code /= NotGiven
                  => logs[i].employee = listing.query.employee_code
            /\ listing.query.device_serial /= NotGiven
                  => logs[i].device = listing.query.device_serial
            /\ InListedPeriod(i)})

\* C22 amended: the same, an empty employee code or device serial counting as
\* a filter that is not given.
C22_ListIgnoresEmptyFilters ==
    listing.called =>
        ListedPageOf({i \in 1 .. Len(logs) :
            /\ listing.query.employee_code \notin {NotGiven, ""}
                  => logs[i].employee = listing.query.employee_code
            /\ listing.query.device_serial \notin {NotGiven, ""}
                  => logs[i].device = listing.query.device_serial
            /\ InListedPeriod(i)})

C22_Witness ==
    /\ listing.called
    /\ listing.query.employee_code = ""
    /\ listing.query.device_serial = "d1"
    /\ listing.query.from_time = 2
    /\ listing.query.offset = 1
    /\ listing.query.limit = 1
    /\ listing.total = 2
    /\ Len(listing.items) = 1
    /\ \E i \in 1 .. Len(logs) : logs[i].punched_at = 1


\* the users stored by POST /auth/initial-admin
InitialAdmins == {i \in 1 .. Len(users) : users[i].by = "bootstrap"}

\* C23: whatever initial-admin requests are made, at most one user is ever
\* created through the operation, that user is an administrator, and it is
\* the first user of the table: no request succeeds once a user is stored.
C23_AtMostOneInitialAdmin ==
    /\ Cardinality(InitialAdmins) <= 1
    /\ \A i \in InitialAdmins : users[i].role = "admin" /\ i = 1


\* a manual sync has returned its list
SyncReturned == pc["api"] = "done" /\ op["api"] = "sync" /\ fetched["api"] /= <<>>

\* the payload names a stored employee and carries a timestamp
WellFormed(pl) == pl.employee_code /= "" /\ pl.timestamp /= None
Accepted(pl) == WellFormed(pl) /\ pl.employee_code \in Employees

\* payload j of the batch was looked at: it is stored, or its externalId is not
\* above the high-water mark of the device
Processed(j) ==
    LET pl == fetched["api"][j]
        d == cur["api"]
    IN \/ \E i \in RowsOf(logs, d) :
             /\ logs[i].external_id = pl.external_id
             /\ pl.external_id = None => i \in {ret["api"][r] : r \in DOMAIN ret["api"]}
       \/ /\ pl.external_id /= None
          /\ devices[d].last_log_id /= None
          /\ pl.external_id <= devices[d].last_log_id

\* last_log_id of the synced device is what it was or the externalId of a
\* payload of the batch other than those in `dropped`
MarkNotFrom(dropped) ==
    LET d == cur["api"]
    IN devices[d].last_log_id \in
          {start["api"].devs[d].last_log_id} \cup
          {fetched["api"][j].external_id : j \in DOMAIN fetched["api"] \ dropped}

\* C24: a payload of an unknown employee, which record_attendance_log rejects,
\* does not end the sync with an error, is neither stored nor returned, does
\* not set last_log_id, and every acceptable payload after it is processed.
C24_RejectedPayloadIsSkipped ==
    LET rejected == {k \in DOMAIN fetched["api"] :
                        /\ WellFormed(fetched["api"][k])
                        /\ fetched["api"][k].employee_code \notin Employees}
    IN (SyncReturned /\ rejected /= {})
          => /\ err["api"] = NoError
             /\ \A i \in 1 .. Len(logs) : logs[i].employee \in Employees
             /\ MarkNotFrom(rejected)
             /\ \A k \in rejected : \A j \in DOMAIN fetched["api"] :
                    (j > k /\ Accepted(fetched["api"][j])) => Processed(j)

C24_Witness ==
    /\ SyncReturned
    /\ fetched["api"] = <<Payload(MaxId, UnknownCode, 1, "in"), Good(1)>>
    /\ Len(start["api"].logs) = 0
    /\ Len(logs) = 1
    /\ devices["d1"].last_log_id = 1


\* C25: a payload without employee code or without timestamp does not end the
\* sync with an error, is never stored, does not set last_log_id, and every
\* acceptable payload after it is processed.
C25_MalformedPayloadIsDropped ==
    LET malformed == {k \in DOMAIN fetched["api"] : ~WellFormed(fetched["api"][k])}
    IN (SyncReturned /\ malformed /= {})
          => /\ err["api"] = NoError
             /\ \A i \in 1 .. Len(logs) : logs[i].employee /= "" /\ logs[i].punched_at /= None
             /\ MarkNotFrom(malformed)
             /\ \A k \in malformed : \A j \in DOMAIN fetched["api"] :
                    (j > k /\ Accepted(fetched["api"][j])) => Processed(j)

C25_Witness ==
    /\ SyncReturned
    /\ fetched["api"] = <<Payload(MaxId, "e1", None, "in"), Good(None)>>
    /\ Len(ret["api"]) = 1
    /\ devices["d1"].last_log_id = None
    /\ devices["d1"].last_sync_at /= None


\* the externalIds of the events the last manual sync returned
ReturnedIds ==
    {logs[ret["api"][i]].external_id : i \in DOMAIN ret["api"]} \ {None}

\* C26: a sync whose fetch succeeded ends with last_sync_at and last_seen_at
\* set to the time of its commit and last_log_id the largest of its previous
\* value and the externalIds of the accepted payloads; with no accepted
\* externalId last_log_id is what it was.
C26_FinishSetsMarkToMaxAccepted ==
    (pc["api"] = "done" /\ op["api"] = "sync" /\ err["api"] = NoError)
       => LET d == cur["api"]
              before == start["api"].devs[d].last_log_id
          IN /\ devices[d].last_sync_at = clock
             /\ devices[d].last_seen_at = clock
             /\ devices[d].last_log_id =
                   IF ReturnedIds = {} THEN before
                   ELSE IF before = None THEN Max(ReturnedIds)
                   ELSE Max(ReturnedIds \cup {before})


\* C27: the list a sync returns holds, in batch order, one event for every
\* payload that was not dropped (malformed, unknown employee, externalId not
\* above the high-water mark), and nothing else: the event of a payload is
\* the stored punch of its device and externalId, a new one for a payload
\* without externalId.
C27_ReturnsAcceptedInOrder ==
    (pc["api"] = "done" /\ op["api"] = "sync" /\ err["api"] = NoError)
       => LET d == cur["api"]
              b == fetched["api"]
              r == ret["api"]
          IN \E k \in [1 .. Len(r) -> DOMAIN b] :
                /\ \A i, j \in 1 .. Len(r) : i < j => k[i] < k[j]
                /\ \A i \in 1 .. Len(r) :
                      /\ Accepted(b[k[i]])
                      /\ logs[r[i]].device = d
                      /\ logs[r[i]].external_id = b[k[i]].external_id
                      /\ b[k[i]].external_id = None
                            => /\ logs[r[i]] = NewLog(b[k[i]], d)
                               /\ r[i] > Len(start["api"].logs)
                /\ \A j \in DOMAIN b \ {k[i] : i \in 1 .. Len(r)} :
                      \/ ~Accepted(b[j])
                      \/ /\ b[j].external_id /= None
                         /\ devices[d].last_log_id /= None
                         /\ b[j].external_id <= devices[d].last_log_id

C27_Witness ==
    /\ pc["api"] = "done"
    /\ op["api"] = "sync"
    /\ fetched["api"] = <<Good(0), Good(0)>>
    /\ ret["api"] = <<2, 2>>
    /\ Len(logs) = 2


\* the cycle has reached device d: its client was built or could not be
\* built, its sync has ended or is about to be called
Reached(d) == d \in listed /\ (outcome[d] /= "none" \/ (cur["poller"] = d /\ pc["poller"] = "fetch"))

C29_OneSyncAtATime ==
    LET waiting == {queue[i] : i \in DOMAIN queue}
    IN /\ pc["poller"] \in {"fetch", "loop", "lookup", "commit"}
             => /\ cur["poller"] \in listed \ waiting
                /\ outcome[cur["poller"]] = "none"
                /\ \A d \in listed \ {cur["poller"]} :
                      IF d \in waiting THEN outcome[d] = "none"
                      ELSE outcome[d] \in {"synced", "failed", "no_client"}
       /\ pc["poller"] = "list"
             => /\ batch["poller"] = <<>>
                /\ abort = "none" => \A d \in listed : outcome[d] /= "none"

C29_Witness ==
    /\ pc["poller"] = "commit"
    /\ cur["poller"] = "d2"
    /\ outcome["d1"] = "failed"
    /\ queue = <<>>
    /\ RowsOf(logs, "d1") /= {}


\* C30: a shift assignment for an employee code or a shift id that is not
\* stored fails with a not-found error and leaves the assignments as they
\* were: none inserted, none truncated.
C30_UnknownAssignChangesNothing ==
    (/\ ledger.op = "assign"
     /\ (ledger.employee \notin Employees \/ ledger.shift \notin DOMAIN shifts))
        => /\ ledger.err \in {"Employee not found", "Shift not found"}
           /\ ledger.result = 0
           /\ assignments = ledger.before

C30_Witness ==
    /\ ledger.op = "assign"
    /\ ledger.employee = "e1"
    /\ ledger.shift = UnknownShift
    /\ ledger.err = "Shift not found"
    /\ Len(assignments) = 1
    /\ assignments[1].employee = "e1"
    /\ assignments[1].effective_to = None

\* C31: an employee with punches on the day, every in followed by a later out
\* and no assignment covering the day is present, with late_minutes and
\* expected_minutes unset.
C31_NoShiftIsPresentUnrated ==
    summaries.day /= None
       => \A e \in Employees :
             LET S == PunchesOn(e, summaries.day)
                 covering == {i \in 1 .. Len(assignments) :
                                /\ assignments[i].employee = e
                                /\ assignments[i].effective_from <= summaries.day
                                /\ (assignments[i].effective_to = None
                                      \/ assignments[i].effective_to >= summaries.day)}
             IN (/\ S /= {}
                 /\ EndsClosed(S)
                 /\ \E i \in S : InPunch(logs[i])
                 /\ covering = {})
                   => /\ summaries.of[e].status = "present"
                      /\ summaries.of[e].shift = None
                      /\ summaries.of[e].late_minutes = None
                      /\ summaries.of[e].expected_minutes = None

\* an in long after 08:00 and a later out, and no assignment at all
C31_Witness ==
    /\ summaries.day = 1
    /\ assignments = <<>>
    /\ logs = <<Punch("e1", "IN", At(1, 8, 10, 30)), Punch("e1", "out", At(1, 17, 0, 0))>>
    /\ summaries.of["e1"].status = "present"
    /\ summaries.of["e1"].first_in = At(1, 8, 10, 30)
    /\ summaries.of["e1"].late_minutes = None
    /\ summaries.of["e1"].expected_minutes = None

\* the punches of the list that are neither an in nor an out
OthersOf(ls) == (1 .. Len(ls)) \ (InsOf(ls) \cup OutsOf(ls))
\* the list is in ascending timestamp order, as logs_stmt returns it
Ascending(ls) == \A i, j \in 1 .. Len(ls) : i < j => ls[i].punched_at <= ls[j].punched_at

\* C32: a punch that is neither an in nor an out moves last_out to its
\* timestamp when no out or other punch is walked after it, and changes neither
\* the sessions (an in stays open across it) nor the minutes worked; a day of in
\* punches only, in ascending order, has last_out at its last punch.
C32_OtherPunchOnlyMovesLastOut ==
    walk.called
       => LET ls == walk.input
              r == walk.result
              all == 1 .. Len(ls)
          IN /\ \A k \in OthersOf(ls) :
                   /\ r.last_out /= None
                   /\ r.last_out >= ls[k].punched_at
                   /\ (\A j \in OutsOf(ls) \cup OthersOf(ls) : ~WalkedBefore(ls, k, j))
                         => r.last_out = ls[k].punched_at
             /\ r.total_minutes = SessionMinutes(ls, Sessions(ls))
             /\ (r.open_in /= None) <=> (OpenAtEnd(ls) /= {})
             /\ (ls /= <<>> /\ OutsOf(ls) = {} /\ OthersOf(ls) = {} /\ Ascending(ls))
                   => /\ r.last_out = ls[Len(ls)].punched_at
                      /\ r.last_out = Latest(TimesOf(ls, all))

\* a break after an in: the session stays open, nothing is added, last_out is
\* the break
C32_Witness ==
    /\ walk.called
    /\ walk.input = <<Punch("e1", "IN", At(1, 8, 5, 0)), Punch("e1", "break", At(1, 17, 0, 0))>>
    /\ walk.result.open_in = At(1, 8, 5, 0)
    /\ walk.result.total_minutes = 0
    /\ walk.result.last_out = At(1, 17, 0, 0)

\* the store without the punches that are not of employee e on the day
OwnPunches(e, day) ==
    LET own(row) == /\ row.employee = e
                    /\ row.punched_at >= day * 86400
                    /\ row.punched_at < (day + 1) * 86400
    IN SelectSeq(logs, own)
\* the summaries of employee e over a store of punches ls
SummariesOver(ls, e, day) ==
    {DaySummary(day_logs,
                IF r = 0 THEN None ELSE assignments[r].shift,
                IF r = 0 THEN GeneralShift ELSE shifts[assignments[r].shift],
                day) :
        day_logs \in DayLogs(ls, e, day), r \in Resolved(assignments, e, day)}

\* C33: the listing holds one summary for each employee, and the summary of an
\* employee is one the store gives once every punch of another employee and
\* every punch before the start of the day or at or after its end is taken
\* away; first_in and last_out are timestamps of the employee's punches of the
\* day.
C33_SummaryFromOwnPunchesOfTheDay ==
    summaries.day /= None
       => /\ DOMAIN summaries.of = Employees
          /\ \A e \in Employees :
                LET sm == summaries.of[e]
                    times == {logs[i].punched_at : i \in PunchesOn(e, summaries.day)}
                IN /\ sm \in SummariesOver(OwnPunches(e, summaries.day), e, summaries.day)
                   /\ sm.first_in /= None => sm.first_in \in times
                   /\ sm.last_out /= None => sm.last_out \in times

\* an out of e1 at midnight after day 1 does not close the session of day 1
C33_Witness ==
    /\ summaries.day = 1
    /\ assignments = <<>>
    /\ logs = <<Punch("e1", "IN", At(1, 8, 10, 0)), Punch("e1", "out", At(2, 0, 0, 0))>>
    /\ summaries.of["e1"].status = "incomplete"
    /\ summaries.of["e1"].last_out = At(1, 8, 10, 0)
    /\ summaries.of["e1"].total_minutes = 0
    /\ summaries.of["e2"].status = "absent"

\* C34: a payload the manual sync is about to skip because its externalId is
\* not above last_log_id of the device has a stored log of that device with
\* that externalId.
C34_FilterDropsOnlyStoredEvents ==
    (pc["api"] = "loop" /\ op["api"] = "sync" /\ batch["api"] /= <<>>)
       => LET pl == Head(batch["api"])
              d == cur["api"]
              mark == copy["api"][d].last_log_id
          IN (pl.external_id /= None /\ mark /= None /\ pl.external_id <= mark)
                => \E i \in 1 .. Len(logs) :
                      logs[i].device = d /\ logs[i].external_id = pl.external_id

\* the payloads of the fetched batch that carry no externalId and are recorded
Unnumbered ==
    {j \in DOMAIN fetched["api"] :
        /\ fetched["api"][j].external_id = None
        /\ fetched["api"][j].employee_code \in Employees
        /\ fetched["api"][j].timestamp /= None}

\* C35: recording a payload without externalId appends one log, whatever is
\* stored; a completed sync has stored one new log for each such payload of
\* its batch, and the sync of the batch delivered a second time has stored
\* exactly those again and returned them.
C35_UnnumberedPunchIsStoredEachTime ==
    /\ [][(pc["api"] = "commit" /\ Head(batch["api"]).external_id = None
             /\ pc'["api"] /= "commit")
            => /\ Len(logs') = Len(logs) + 1
               /\ SubSeq(logs', 1, Len(logs)) = logs
               /\ logs'[Len(logs')].external_id = None
               /\ logs'[Len(logs')].device = cur["api"]
               /\ logs'[Len(logs')].employee = Head(batch["api"]).employee_code
               /\ ret'["api"] = Append(ret["api"], Len(logs'))]_vars
    /\ []((pc["api"] = "done" /\ op["api"] = "sync" /\ err["api"] = NoError)
            => LET before == Len(start["api"].logs)
                   new == {i \in before + 1 .. Len(logs) : logs[i].external_id = None}
               IN /\ Cardinality(new) = Cardinality(Unnumbered)
                  /\ replayed
                       => /\ Len(logs) = before + Cardinality(Unnumbered)
                          /\ Len(ret["api"]) >= Cardinality(Unnumbered))

\* a batch of two payloads without externalId, stored twice
C35_Witness ==
    /\ replayed
    /\ pc["api"] = "done"
    /\ fetched["api"] = <<Good(None), Good(None)>>
    /\ Len(start["api"].logs) = 2
    /\ Len(logs) = 4
    /\ \A i \in 1 .. 4 : logs[i].external_id = None

\* C36: a lookup for the employee and the effective_from of an assignment that
\* was just created with effective_to null or not before effective_from
\* returns that assignment.
C36_ResolveAfterAssignReturnsTheNew ==
    [][(/\ ledger.op = "assign" /\ ledger.err = NoError
        /\ (ledger.effective_to = None \/ ledger.effective_to >= ledger.effective_from)
        /\ ledger'.op = "resolve"
        /\ ledger'.employee = ledger.employee
        /\ ledger'.on_date = ledger.effective_from)
          => /\ ledger'.result = Len(assignments)
             /\ assignments[ledger'.result] =
                   Assignment(ledger.employee, ledger.shift,
                              ledger.effective_from, ledger.effective_to)]_vars

\* the lookup after a second assignment from the same day as the first
C36_Witness ==
    /\ ledger.op = "resolve" /\ ledger.employee = "e1" /\ ledger.on_date = 2
    /\ Len(assignments) = 2
    /\ assignments[1].employee = "e1" /\ assignments[1].effective_from = 2
    /\ assignments[2] = Assignment("e1", 2, 2, None)
    /\ ledger.result = 2

\* C37: every stored assignment has effective_to null or not before its
\* effective_from, after any sequence of assign requests.
C37_AssignmentsAreNonEmptyIntervals ==
    \A i \in 1 .. Len(assignments) :
        \/ assignments[i].effective_to = None
        \/ assignments[i].effective_to >= assignments[i].effective_from

\* C38: total_minutes is never negative and, when first_in and last_out are
\* both set and last_out is not before first_in, it is at most the whole
\* minutes from first_in to last_out.
C38_TotalWithinFirstInAndLastOut ==
    walk.called
       => LET r == walk.result
          IN /\ r.total_minutes >= 0
             /\ (r.first_in /= None /\ r.last_out /= None /\ r.last_out >= r.first_in)
                   => r.total_minutes <= (r.last_out - r.first_in) \div 60

\* a session of 5 whole minutes and a second out at 17:00:00, 535 minutes
\* after the first in
C38_Witness ==
    /\ walk.called
    /\ walk.input = <<Punch("e1", "out", At(1, 17, 0, 0)), Punch("e1", "out", At(1, 8, 10, 30)),
                      Punch("e1", "IN", At(1, 8, 5, 0))>>
    /\ walk.result.total_minutes = 5
    /\ walk.result.first_in = At(1, 8, 5, 0)
    /\ walk.result.last_out = At(1, 17, 0, 0)
    /\ walk.result.open_in = None

\* an assignment of employee e covers the day
ShiftResolved(e, day) ==
    \E i \in 1 .. Len(assignments) :
        /\ assignments[i].employee = e
        /\ assignments[i].effective_from <= day
        /\ (assignments[i].effective_to = None \/ assignments[i].effective_to >= day)

\* what C39 and its amendment both say: late needs a resolved shift and a
\* first_in; late_minutes and expected_minutes are set exactly when a shift is
\* resolved and first_in is set; absent exactly when the employee has no punch
\* on the day
SummaryConsistent(e) ==
    LET sm == summaries.of[e]
        rated == ShiftResolved(e, summaries.day) /\ sm.first_in /= None
    IN /\ sm.status = "late" => rated
       /\ (sm.shift /= None) <=> ShiftResolved(e, summaries.day)
       /\ (sm.late_minutes /= None) <=> rated
       /\ (sm.expected_minutes /= None) <=> rated
       /\ (sm.status = "absent") <=> (PunchesOn(e, summaries.day) = {})

\* C39 as stated: every summary is consistent, and a late one has late_minutes
\* greater than the grace minutes of its shift.
C39_LateMinutesExceedGrace ==
    summaries.day /= None
       => \A e \in Employees :
             /\ SummaryConsistent(e)
             /\ summaries.of[e].status = "late"
                   => summaries.of[e].late_minutes
                         > shifts[summaries.of[e].shift].grace_minutes

\* C39 amended: every summary is consistent, and a late one has a first_in
\* later than shift start + grace and late_minutes, the whole minutes from
\* shift start to first_in, at least the grace minutes of its shift.
C39_LateMinutesAtLeastGrace ==
    summaries.day /= None
       => \A e \in Employees :
             LET sm == summaries.of[e]
             IN /\ SummaryConsistent(e)
                /\ sm.status = "late"
                      => /\ sm.first_in > summaries.day * 86400
                                             + shifts[sm.shift].start_time
                                             + shifts[sm.shift].grace_minutes * 60
                         /\ sm.late_minutes >= shifts[sm.shift].grace_minutes

\* a first in 30 seconds after the grace period of 10 minutes: late by 10
C39_Witness ==
    /\ summaries.day = 1
    /\ shifts[1] = GeneralShift
    /\ logs = <<Punch("e1", "IN", At(1, 8, 10, 30)), Punch("e1", "out", At(1, 17, 0, 0))>>
    /\ summaries.of["e1"].shift = 1
    /\ summaries.of["e1"].status = "late"
    /\ summaries.of["e1"].late_minutes = 10
    /\ summaries.of["e2"].status = "absent"
    /\ summaries.of["e2"].late_minutes = None

=============================================================================
